---- MODULE Spec2Model ----
(***************************************************************************)
(* Model of the document format checker of doc-helper: the RuleEngine      *)
(* (backend/app/services/rule_engine.py) and the StructureChecker          *)
(* (backend/app/services/structure_checker.py).                            *)
(*                                                                         *)
(* Python dictionaries are functions whose DOMAIN is the set of keys that  *)
(* are present; d.get(k, default) is Get(d, k, default).  A field of the   *)
(* snapshot whose value is None is a key that is absent (IsNone), the None *)
(* that an issue carries as fix action is the value None.  Lengths in      *)
(* millimetres are integers in hundredths of a millimetre (25.4mm = 2540), *)
(* font sizes and line spacings are integers in tenths of a point (0.5pt = *)
(* 5), indents are integers in tenths of a character.  A text is a         *)
(* sequence of characters; a formatted string (an f-string) is the tuple   *)
(* of its format tag and its arguments.                                    *)
(***************************************************************************)
EXTENDS Integers, Sequences, FiniteSets, TLC

VARIABLES doc, rules, mode, pc, ruleIdx, issues, merged, remerged,
          fs, revs, user, reqs, checks, orders

vars ==
    <<doc, rules, mode, pc, ruleIdx, issues, merged, remerged,
      fs, revs, user, reqs, checks, orders>>

\* No revision is generated: no file is on disk and no invocation of
\* generate_revised_document exists.
NoRevision ==
    fs = << >> /\ revs = << >>

\* No check is submitted and nothing is ordered: no user row, no request,
\* no check record and no order.
NoSubmission ==
    user = << >> /\ reqs = << >> /\ checks = << >> /\ orders = << >>

(***************************************************************************)
(* Bounds of the model.                                                    *)
(***************************************************************************)
MaxIssues ==
    3

MaxRules ==
    2

MaxRuns ==
    5

MaxHeadings ==
    4

MaxBodyHeadings ==
    2

MaxTocEntries ==
    2

(***************************************************************************)
(* Python helpers.                                                         *)
(***************************************************************************)
None ==
    "None"

Get(d, k, default) ==
    IF k \in DOMAIN d THEN d[k] ELSE default

\* d.get(k) is None
IsNone(d, k) ==
    k \notin DOMAIN d

Abs(x) ==
    IF x < 0 THEN -x ELSE x

Range(s) ==
    {s[i] : i \in DOMAIN s}

SeqsUpTo(S, n) ==
    UNION {[1..k -> S] : k \in 0..n}

RECURSIVE SeqSum(_)
SeqSum(s) ==
    IF s = <<>> THEN 0 ELSE Head(s) + SeqSum(Tail(s))

\* Stable sort of a sequence of <<key, value>> pairs by the integer key.
RECURSIVE InsertPair(_, _)
InsertPair(x, s) ==
    IF s = <<>> THEN <<x>>
    ELSE IF Head(s)[1] <= x[1]
         THEN <<Head(s)>> \o InsertPair(x, Tail(s))
         ELSE <<x>> \o s

RECURSIVE SortPairs(_)
SortPairs(s) ==
    IF s = <<>> THEN <<>>
    ELSE InsertPair(s[Len(s)], SortPairs(SubSeq(s, 1, Len(s) - 1)))

\* sorted(s, key=lambda x: x.get(key, 0)): Python's sort is stable.
SortedBy(s, key) ==
    LET ps == SortPairs([i \in DOMAIN s |-> <<Get(s[i], key, 0), s[i]>>])
    IN  [i \in DOMAIN ps |-> ps[i][2]]

\* The distinct elements of s in order of first occurrence: the keys of a
\* dictionary (insertion-ordered) filled by iterating over s.
RECURSIVE Distinct(_)
Distinct(s) ==
    IF s = <<>> THEN <<>>
    ELSE LET rest == Distinct(SubSeq(s, 1, Len(s) - 1))
         IN  IF s[Len(s)] \in Range(rest) THEN rest ELSE Append(rest, s[Len(s)])

(***************************************************************************)
(* RuleEngine._merge_locations                                             *)
(***************************************************************************)
MergeLocationsOffByOne(locations) ==
    IF locations = <<>>
    THEN [type |-> "unknown", description |-> <<"unknown_location">>]
    ELSE [type |-> "merged",
          description |-> <<"n_locations", Len(locations) + 1>>,
          count |-> Len(locations) + 1]

_merge_locations(locations) ==
    IF locations = <<>>
    THEN [type |-> "unknown", description |-> <<"unknown_location">>]
    ELSE [type |-> "merged",
          description |-> <<"n_locations", Len(locations)>>,
          count |-> Len(locations)]

\* The ascending sequence of the elements of a finite set of integers:
\* sorted(pages.keys()).
RECURSIVE SortedSet(_)
SortedSet(S) ==
    IF S = {} THEN <<>>
    ELSE LET m == CHOOSE x \in S : \A y \in S : x <= y
         IN  <<m>> \o SortedSet(S \ {m})

\* The first location of every index, in the order of the list (the
\* seen_indices loop of the _merge_consecutive_* functions).
RECURSIVE UniqueByKey(_, _, _)
UniqueByKey(locs, key, seen) ==
    IF locs = <<>> THEN <<>>
    ELSE LET idx == Get(Head(locs), key, 0)
         IN  IF idx \in seen
             THEN UniqueByKey(Tail(locs), key, seen)
             ELSE <<Head(locs)>> \o UniqueByKey(Tail(locs), key, seen \cup {idx})

\* The inner while loop of _merge_consecutive_runs / _figures: the first
\* position j > i whose index does not continue the consecutive sequence
\* that starts at position i.
RECURSIVE ConsecutiveEnd(_, _, _)
ConsecutiveEnd(idxs, i, j) ==
    IF j <= Len(idxs) /\ idxs[j] = idxs[i] + (j - i)
    THEN ConsecutiveEnd(idxs, i, j + 1)
    ELSE j

\* The outer while loop of _merge_consecutive_runs / _figures over the
\* deduplicated indices: 3 or more consecutive indices give one range
\* string, fewer are listed one by one.
RECURSIVE MergeByIndex(_, _, _, _)
MergeByIndex(idxs, i, rangeTag, singleTag) ==
    IF i > Len(idxs) THEN <<>>
    ELSE LET j == ConsecutiveEnd(idxs, i, i + 1)
             out == IF j - i >= 3
                    THEN << <<rangeTag, idxs[i] + 1, idxs[j - 1] + 1>> >>
                    ELSE [k \in 1..(j - i) |-> <<singleTag, idxs[i + k - 1] + 1>>]
         IN  out \o MergeByIndex(idxs, j, rangeTag, singleTag)

(***************************************************************************)
(* RuleEngine._merge_consecutive_runs                                      *)
(***************************************************************************)
_merge_consecutive_runs(run_locs) ==
    IF run_locs = <<>> THEN <<>>
    ELSE LET sorted_locs == SortedBy(run_locs, "paragraph_index")
             unique_locs == UniqueByKey(sorted_locs, "paragraph_index", {})
             idxs == [k \in DOMAIN unique_locs |-> Get(unique_locs[k], "paragraph_index", 0)]
         IN  MergeByIndex(idxs, 1, "paragraphs_from_to", "paragraph_no")

(***************************************************************************)
(* RuleEngine._merge_consecutive_figures                                   *)
(***************************************************************************)
_merge_consecutive_figures(figure_locs) ==
    IF figure_locs = <<>> THEN <<>>
    ELSE LET sorted_locs == SortedBy(figure_locs, "index")
             unique_locs == UniqueByKey(sorted_locs, "index", {})
             idxs == [k \in DOMAIN unique_locs |-> Get(unique_locs[k], "index", 0)]
         IN  MergeByIndex(idxs, 1, "figures_from_to", "figure_no")

(***************************************************************************)
(* RuleEngine._merge_consecutive_paragraphs                                *)
(***************************************************************************)
StartLine(loc) ==
    Get(loc, "start_line", 1)

EndLine(loc) ==
    Get(loc, "end_line", StartLine(loc))

\* The inner while loop: <<j, end_line>> where j is the first position that
\* does not continue the group starting at i (consecutive index and a
\* start line that follows the end line reached so far).
RECURSIVE ParagraphGroupEnd(_, _, _, _)
ParagraphGroupEnd(locs, i, j, end_line) ==
    IF /\ j <= Len(locs)
       /\ Get(locs[j], "index", 0) = Get(locs[i], "index", 0) + (j - i)
       /\ StartLine(locs[j]) = end_line + 1
    THEN ParagraphGroupEnd(locs, i, j + 1, EndLine(locs[j]))
    ELSE <<j, end_line>>

ParagraphItem(loc) ==
    IF StartLine(loc) = EndLine(loc)
    THEN <<"paragraph_line", Get(loc, "index", 0) + 1, StartLine(loc)>>
    ELSE <<"paragraph_lines", Get(loc, "index", 0) + 1, StartLine(loc), EndLine(loc)>>

RECURSIVE MergeParagraphGroups(_, _)
MergeParagraphGroups(locs, i) ==
    IF i > Len(locs) THEN <<>>
    ELSE LET start_idx == Get(locs[i], "index", 0)
             start_line == StartLine(locs[i])
             e == ParagraphGroupEnd(locs, i, i + 1, EndLine(locs[i]))
             j == e[1]
             end_line == e[2]
             last_idx == Get(locs[j - 1], "index", 0)
             out == IF j - i >= 3
                    THEN IF start_line = end_line
                         THEN << <<"paragraphs_from_to_line", start_idx + 1,
                                   last_idx + 1, start_line>> >>
                         ELSE << <<"paragraphs_from_to_lines", start_idx + 1,
                                   last_idx + 1, start_line, end_line>> >>
                    ELSE [k \in 1..(j - i) |-> ParagraphItem(locs[i + k - 1])]
         IN  out \o MergeParagraphGroups(locs, j)

MergeParagraphsKeepingDuplicates(para_locs) ==
    IF para_locs = <<>> THEN <<>>
    ELSE MergeParagraphGroups(para_locs, 1)

_merge_consecutive_paragraphs(para_locs) ==
    IF para_locs = <<>> THEN <<>>
    ELSE MergeParagraphGroups(UniqueByKey(para_locs, "index", {}), 1)

(***************************************************************************)
(* RuleEngine._build_locations_list                                        *)
(***************************************************************************)
DisplayLimit ==
    20

PageOf(loc) ==
    Get(loc, "page_number", 1)

PageEntry(locations, page) ==
    LET page_locs == SelectSeq(locations, LAMBDA l : PageOf(l) = page)
        TypeOf(l) == Get(l, "type", None)
        run_locs == SelectSeq(page_locs, LAMBDA l : TypeOf(l) = "run")
        para_locs == SelectSeq(page_locs, LAMBDA l : TypeOf(l) = "paragraph")
        figure_locs == SelectSeq(page_locs, LAMBDA l : TypeOf(l) = "figure")
        other_locs == SelectSeq(page_locs,
                          LAMBDA l : TypeOf(l) \notin {"run", "paragraph", "figure"})
        all_items ==
            _merge_consecutive_runs(
                SortedBy(run_locs, "paragraph_index"))
            \o _merge_consecutive_paragraphs(
                SortedBy(para_locs, "index"))
            \o _merge_consecutive_figures(
                SortedBy(figure_locs, "index"))
            \o [k \in DOMAIN other_locs |-> Get(other_locs[k], "description", <<>>)]
    IN  [page |-> page,
         items |-> SubSeq(all_items, 1,
                     IF Len(all_items) < DisplayLimit THEN Len(all_items) ELSE DisplayLimit),
         all_items |-> all_items,
         total |-> Len(page_locs),
         has_more |-> Len(all_items) > DisplayLimit]

_build_locations_list(locations) ==
    IF locations = <<>> THEN <<>>
    ELSE LET pages == SortedSet({PageOf(locations[k]) : k \in DOMAIN locations})
         IN  [k \in DOMAIN pages |-> PageEntry(locations, pages[k])]

(***************************************************************************)
(* RuleEngine._merge_issues_by_rule                                        *)
(***************************************************************************)
\* The entry of `grouped` for rule_id: the metadata of the first issue with
\* that rule id and the locations of all of them, in order.
GroupOf(issue_list, rule_id) ==
    LET same == SelectSeq(issue_list, LAMBDA i : i.rule_id = rule_id)
        first == same[1]
    IN  [rule_id |-> first.rule_id,
         rule_name |-> first.rule_name,
         category |-> first.category,
         error_message |-> first.error_message,
         suggestion |-> first.suggestion,
         fix_action |-> Get(first, "fix_action", None),
         fix_params |-> Get(first, "fix_params", None),
         locations |-> [k \in DOMAIN same |-> same[k].location]]

MergedIssue(issue_data) ==
    [rule_id |-> issue_data.rule_id,
     rule_name |-> issue_data.rule_name,
     category |-> issue_data.category,
     error_message |-> issue_data.error_message,
     suggestion |-> issue_data.suggestion,
     fix_action |-> issue_data.fix_action,
     fix_params |-> issue_data.fix_params,
     location |-> _merge_locations(issue_data.locations),
     locations_list |-> _build_locations_list(issue_data.locations),
     raw_locations |-> issue_data.locations]

MergeWithoutGrouping(issue_list) ==
    [k \in DOMAIN issue_list |->
        MergedIssue([GroupOf(issue_list, issue_list[k].rule_id)
                        EXCEPT !.locations = <<issue_list[k].location>>])]

MergeDroppingRepeatedLocations(issue_list) ==
    LET rule_ids == Distinct([k \in DOMAIN issue_list |-> issue_list[k].rule_id])
        Dedup(g) == [g EXCEPT !.locations = Distinct(g.locations)]
    IN  [k \in DOMAIN rule_ids |-> MergedIssue(Dedup(GroupOf(issue_list, rule_ids[k])))]

_merge_issues_by_rule(issue_list) ==
    LET rule_ids == Distinct([k \in DOMAIN issue_list |-> issue_list[k].rule_id])
    IN  [k \in DOMAIN rule_ids |-> MergedIssue(GroupOf(issue_list, rule_ids[k]))]

(***************************************************************************)
(* docx_parser.contains_chinese / contains_english.  A text is a sequence  *)
(* of characters; "zh1", "zh2" stand for two CJK ideographs and "zh_one"   *)
(* for the CJK numeral one, which the patterns of _normalize_title name.   *)
(***************************************************************************)
CjkChars ==
    {"zh1", "zh2", "zh_one"}

LatinChars ==
    {"A", "B", "C"}

contains_chinese(text) ==
    \E k \in DOMAIN text : text[k] \in CjkChars

contains_english(text) ==
    \E k \in DOMAIN text : text[k] \in LatinChars

(***************************************************************************)
(* RuleEngine._match_page_condition                                        *)
(***************************************************************************)
MarginKeys ==
    <<"top_mm", "bottom_mm", "left_mm", "right_mm">>

DefaultToleranceMm ==
    50

A4WidthMm ==
    21000

A4HeightMm ==
    29700

PaperToleranceMm ==
    100

PaperSizeMatches(page_settings, condition) ==
    IF "paper_name" \in DOMAIN condition
    THEN LET paper_size == Get(page_settings, "paper_size", << >>)
             width == Get(paper_size, "width_mm", 0)
             height == Get(paper_size, "height_mm", 0)
         IN  IF condition["paper_name"] = "A4"
             THEN /\ Abs(width - A4WidthMm) < PaperToleranceMm
                  /\ Abs(height - A4HeightMm) < PaperToleranceMm
             ELSE IF "width_mm" \in DOMAIN condition /\ "height_mm" \in DOMAIN condition
                  THEN /\ ~(Abs(width - condition["width_mm"]) > PaperToleranceMm)
                       /\ ~(Abs(height - condition["height_mm"]) > PaperToleranceMm)
                  ELSE TRUE
    ELSE TRUE

MatchPageStrictBoundary(target, condition) ==
    LET page_settings == Get(target, "page_settings", << >>)
        margins == Get(page_settings, "margins", << >>)
        tolerance == Get(condition, "tolerance_mm", DefaultToleranceMm)
    IN  /\ \A k \in DOMAIN MarginKeys :
               MarginKeys[k] \in DOMAIN condition =>
                   ~(Abs(Get(margins, MarginKeys[k], 0) - condition[MarginKeys[k]])
                        >= tolerance)
        /\ PaperSizeMatches(page_settings, condition)

_match_page_condition(target, condition) ==
    LET page_settings == Get(target, "page_settings", << >>)
        margins == Get(page_settings, "margins", << >>)
        tolerance == Get(condition, "tolerance_mm", DefaultToleranceMm)
    IN  /\ \A k \in DOMAIN MarginKeys :
               MarginKeys[k] \in DOMAIN condition =>
                   ~(Abs(Get(margins, MarginKeys[k], 0) - condition[MarginKeys[k]])
                        > tolerance)
        /\ PaperSizeMatches(page_settings, condition)

(***************************************************************************)
(* RuleEngine._match_font_condition.  A font name is the sequence of the   *)
(* names of its comma-separated fallback list ("Arial, SimSun" is          *)
(* <<"Arial", "SimSun">>, the empty string is <<>>); "zh:..." is the       *)
(* Chinese name of a font.                                                 *)
(***************************************************************************)
FontMap ==
    [n \in {"zh:SongTi", "SimSun", "zh:HeiTi", "SimHei", "zh:YaHei",
            "Microsoft YaHei", "zh:KaiTi", "KaiTi", "zh:FangSong", "FangSong",
            "zh:XiaoBiaoSong"} |->
        CASE n \in {"zh:SongTi", "SimSun"} -> "SimSun"
          [] n \in {"zh:HeiTi", "SimHei"} -> "SimHei"
          [] n \in {"zh:YaHei", "Microsoft YaHei"} -> "Microsoft YaHei"
          [] n \in {"zh:KaiTi", "KaiTi"} -> "KaiTi"
          [] n \in {"zh:FangSong", "FangSong"} -> "FangSong"
          [] OTHER -> n]

normalize_font_name(name) ==
    IF name = <<>> THEN None
    ELSE Get(FontMap, name[1], name[1])

FontSizeTolerance ==
    5

FontIncomplete(font) ==
    IsNone(font, "name") \/ IsNone(font, "size_pt")

FontChecks(target, condition) ==
    LET font == Get(target, "font", << >>)
        text == Get(target, "text", <<>>)
        name == font["name"]
        size == Get(font, "size_pt", 0)
    IN  /\ ("chinese_font" \in DOMAIN condition /\ contains_chinese(text))
              => normalize_font_name(name) = normalize_font_name(condition["chinese_font"])
        /\ ("english_font" \in DOMAIN condition /\ contains_english(text))
              => normalize_font_name(name) = normalize_font_name(condition["english_font"])
        /\ ("chinese_size_pt" \in DOMAIN condition /\ contains_chinese(text))
              => ~(Abs(size - condition["chinese_size_pt"]) > FontSizeTolerance)
        /\ ("english_size_pt" \in DOMAIN condition /\ contains_english(text))
              => ~(Abs(size - condition["english_size_pt"]) > FontSizeTolerance)

MatchFontSkipOnlyWithoutName(target, condition) ==
    IF IsNone(Get(target, "font", << >>), "name")
    THEN TRUE
    ELSE FontChecks(target, condition)

_match_font_condition(target, condition) ==
    IF FontIncomplete(Get(target, "font", << >>))
    THEN TRUE
    ELSE FontChecks(target, condition)

(***************************************************************************)
(* RuleEngine._match_paragraph_condition                                   *)
(***************************************************************************)
IndentTolerance ==
    5

LineSpacingTolerance ==
    20

PointsThreshold ==
    100

DefaultFontSize ==
    120

\* actual_spacing_pt: line_spacing_pt when given, else line_spacing read as
\* points when above 10 and as a multiple of the font size otherwise.
ActualSpacingPt(target) ==
    LET formatting == Get(target, "formatting", << >>)
        line_spacing == Get(formatting, "line_spacing", 0)
        font_size == IF "font" \in DOMAIN target
                        /\ Get(target["font"], "size_pt", 0) # 0
                     THEN target["font"]["size_pt"]
                     ELSE DefaultFontSize
    IN  IF ~IsNone(formatting, "line_spacing_pt")
        THEN formatting["line_spacing_pt"]
        ELSE IF line_spacing > PointsThreshold
             THEN line_spacing
             ELSE IF line_spacing # 0 THEN (line_spacing * font_size) \div 10 ELSE 0

_match_paragraph_condition(target, condition) ==
    LET formatting == Get(target, "formatting", << >>)
    IN  /\ "first_line_indent_chars" \in DOMAIN condition =>
              ~(Abs(Get(formatting, "first_line_indent_chars", 0)
                      - condition["first_line_indent_chars"]) > IndentTolerance)
        /\ "paragraph_line_spacing" \in DOMAIN condition =>
              ~(/\ ActualSpacingPt(target) # 0
                /\ Abs(ActualSpacingPt(target) - condition["paragraph_line_spacing"])
                      > LineSpacingTolerance)

(***************************************************************************)
(* RuleEngine._match_heading_condition                                     *)
(***************************************************************************)
Digits ==
    {"1", "2"}

\* re.match(r'^\d+(\.\d+)*', text.strip()): the text starts with a digit.
StartsWithNumber(text) ==
    LET lead == CHOOSE n \in 0..Len(text) :
                    /\ \A k \in 1..n : text[k] = " "
                    /\ (n < Len(text) => text[n + 1] # " ")
    IN  lead < Len(text) /\ text[lead + 1] \in Digits

\* f"level{level}" for target.get("level")
LevelKey(target) ==
    IF IsNone(target, "level") THEN "levelNone"
    ELSE CASE target["level"] = 1 -> "level1"
           [] target["level"] = 2 -> "level2"
           [] target["level"] = 3 -> "level3"
           [] OTHER -> "levelN"

HeadingLevelChecks(target, level_condition) ==
    LET font == Get(target, "font", << >>)
    IN  /\ "font" \in DOMAIN level_condition => font["name"] = level_condition["font"]
        /\ "size_pt" \in DOMAIN level_condition =>
              ~(Abs(Get(font, "size_pt", 0) - level_condition["size_pt"])
                    > FontSizeTolerance)
        /\ "bold" \in DOMAIN level_condition =>
              (~IsNone(font, "bold") /\ font["bold"] = level_condition["bold"])
        /\ "alignment" \in DOMAIN level_condition =>
              Get(target, "alignment", None) = level_condition["alignment"]

_match_heading_condition(target, condition, match_type) ==
    IF match_type = "section"
    THEN "number_style" \in DOMAIN condition => StartsWithNumber(Get(target, "text", <<>>))
    ELSE LET level_key == LevelKey(target)
         IN  IF level_key \in DOMAIN condition
             THEN IF FontIncomplete(Get(target, "font", << >>))
                  THEN TRUE
                  ELSE HeadingLevelChecks(target, condition[level_key])
             ELSE TRUE

(***************************************************************************)
(* RuleEngine._match_figure_condition                                      *)
(***************************************************************************)
StartsWith(text, prefix) ==
    Len(prefix) <= Len(text) /\ SubSeq(text, 1, Len(prefix)) = prefix

_match_figure_condition(target, condition) ==
    /\ "caption_position" \in DOMAIN condition =>
          Get(target, "caption_position", None) = condition["caption_position"]
    /\ "caption_prefix" \in DOMAIN condition =>
          StartsWith(Get(target, "caption", <<>>), condition["caption_prefix"])

(***************************************************************************)
(* RuleEngine._match_other_condition (text.lower() keeps the model's       *)
(* characters: the headings of the model have no upper-case form).         *)
(***************************************************************************)
_match_other_condition(target, condition) ==
    "required" \in DOMAIN condition =>
        LET headings == Get(target, "headings", <<>>)
            heading_texts == {Get(headings[k], "text", <<>>) : k \in DOMAIN headings}
        IN  \A k \in DOMAIN condition["required"] :
                \/ condition["required"][k] \in heading_texts
                \/ condition["required"][k] = <<"body">>

(***************************************************************************)
(* RuleEngine._match_generic_condition                                     *)
(***************************************************************************)
_match_generic_condition(target, condition) ==
    \A key \in DOMAIN condition :
        key \in DOMAIN target /\ target[key] = condition[key]

(***************************************************************************)
(* RuleEngine._match_condition                                             *)
(***************************************************************************)
_match_condition(target, condition, category, match_type) ==
    CASE category = "page" -> _match_page_condition(target, condition)
      [] category = "font" -> _match_font_condition(target, condition)
      [] category = "paragraph" -> _match_paragraph_condition(target, condition)
      [] category = "heading" -> _match_heading_condition(target, condition, match_type)
      [] category = "figure" -> _match_figure_condition(target, condition)
      [] category = "other" -> _match_other_condition(target, condition)
      [] OTHER -> _match_generic_condition(target, condition)

(***************************************************************************)
(* RuleEngine._get_check_targets                                           *)
(***************************************************************************)
heading_para_indices(doc_data) ==
    LET headings == Get(doc_data, "headings", <<>>)
    IN  {headings[k]["paragraph_index"] :
            k \in {n \in DOMAIN headings : ~IsNone(headings[n], "paragraph_index")}}

\* None is in heading_para_indices: some heading has no paragraph index.
HeadingWithoutIndex(doc_data) ==
    \E k \in DOMAIN Get(doc_data, "headings", <<>>) :
        IsNone(Get(doc_data, "headings", <<>>)[k], "paragraph_index")

\* target.get(key) not in heading_para_indices
NotHeadingOwned(doc_data, target, key) ==
    IF IsNone(target, key)
    THEN ~HeadingWithoutIndex(doc_data)
    ELSE target[key] \notin heading_para_indices(doc_data)

_extract_sections(doc_data) ==
    LET headings == Get(doc_data, "headings", <<>>)
        Section(h) ==
            LET keys == {"type"} \cup ({"level", "text", "paragraph_index"} \cap DOMAIN h)
            IN  [k \in keys |-> IF k = "type" THEN "section" ELSE h[k]]
    IN  [k \in DOMAIN headings |-> Section(headings[k])]

_extract_styles(doc_data) ==
    LET headings == Get(doc_data, "headings", <<>>)
        OfLevel(level) ==
            SelectSeq(headings, LAMBDA h : ~IsNone(h, "level") /\ h["level"] = level)
        Style(level) ==
            LET h == OfLevel(level)[1]
                keys == {"type", "level", "font"} \cup ({"alignment"} \cap DOMAIN h)
            IN  [k \in keys |->
                    CASE k = "type" -> <<"heading_level", level>>
                      [] k = "level" -> level
                      [] k = "font" -> Get(h, "font", << >>)
                      [] OTHER -> h[k]]
        levels == SelectSeq(<<1, 2, 3>>, LAMBDA l : OfLevel(l) # <<>>)
    IN  [k \in DOMAIN levels |-> Style(levels[k])]

GetTargetsFilteringNothing(doc_data, match_type, category) ==
    CASE match_type = "document" -> <<doc_data>>
      [] match_type = "paragraph" -> Get(doc_data, "paragraphs", <<>>)
      [] match_type = "run" -> Get(doc_data, "runs", <<>>)
      [] match_type = "heading" -> Get(doc_data, "headings", <<>>)
      [] match_type = "table" -> Get(doc_data, "tables", <<>>)
      [] match_type = "figure" -> Get(doc_data, "figures", <<>>)
      [] match_type = "section" -> _extract_sections(doc_data)
      [] match_type = "style" -> _extract_styles(doc_data)
      [] OTHER -> <<>>

_get_check_targets(doc_data, match_type, category) ==
    CASE match_type = "document" -> <<doc_data>>
      [] match_type = "paragraph" ->
            IF category = "paragraph"
            THEN SelectSeq(Get(doc_data, "paragraphs", <<>>),
                     LAMBDA p : NotHeadingOwned(doc_data, p, "index"))
            ELSE Get(doc_data, "paragraphs", <<>>)
      [] match_type = "run" ->
            IF category = "font"
            THEN SelectSeq(Get(doc_data, "runs", <<>>),
                     LAMBDA r : NotHeadingOwned(doc_data, r, "paragraph_index"))
            ELSE Get(doc_data, "runs", <<>>)
      [] match_type = "heading" -> Get(doc_data, "headings", <<>>)
      [] match_type = "table" -> Get(doc_data, "tables", <<>>)
      [] match_type = "figure" -> Get(doc_data, "figures", <<>>)
      [] match_type = "section" -> _extract_sections(doc_data)
      [] match_type = "style" -> _extract_styles(doc_data)
      [] OTHER -> <<>>

(***************************************************************************)
(* RuleEngine._build_location and RuleEngine._create_issue                 *)
(***************************************************************************)
_build_location(target, match_type) ==
    CASE match_type = "paragraph" ->
            LET idx == Get(target, "index", 0)
                page == Get(target, "page_number", 1)
                start_line == Get(target, "start_line", 1)
                end_line == Get(target, "end_line", start_line)
            IN  [type |-> match_type, index |-> idx, page_number |-> page,
                 start_line |-> start_line, end_line |-> end_line,
                 description |->
                     <<"page_paragraph_lines", page, idx + 1, start_line, end_line>>]
      [] match_type = "run" ->
            LET para_idx == Get(target, "paragraph_index", 0)
                page == Get(target, "page_number", 1)
            IN  [type |-> match_type, paragraph_index |-> para_idx,
                 page_number |-> page,
                 description |-> <<"page_paragraph_text", page, para_idx + 1>>]
      [] match_type = "heading" ->
            LET keys == {"type", "description"}
                          \cup ({"level", "text", "paragraph_index"} \cap DOMAIN target)
            IN  [k \in keys |->
                    CASE k = "type" -> match_type
                      [] k = "description" -> <<"heading", Get(target, "text", <<>>)>>
                      [] OTHER -> target[k]]
      [] match_type = "style" ->
            [type |-> match_type, level |-> Get(target, "level", 1),
             description |-> <<"heading_style", Get(target, "level", 1)>>]
      [] match_type = "document" ->
            [type |-> match_type, description |-> <<"whole_document">>]
      [] match_type = "figure" ->
            [type |-> match_type, index |-> Get(target, "index", 0),
             description |-> <<"figure_no", Get(target, "index", 0) + 1>>]
      [] OTHER -> [type |-> match_type]

_create_issue(rule, target, match_type) ==
    [rule_id |-> rule["id"],
     rule_name |-> rule["name"],
     category |-> rule["category"],
     error_message |-> Get(rule, "error_message", "format_error"),
     suggestion |-> Get(rule, "suggestion", ""),
     fix_action |-> Get(rule, "fix_action", None),
     fix_params |-> Get(rule, "fix_params", None),
     location |-> _build_location(target, match_type)]

(***************************************************************************)
(* RuleEngine._aggregate_run_issues_by_paragraph                           *)
(***************************************************************************)
\* The issue of paragraph para_idx: the metadata of the first run issue of
\* that paragraph and a paragraph-level location.
AggregatedIssue(run_issues, para_idx, doc_data) ==
    LET first == SelectSeq(run_issues,
                     LAMBDA i : Get(i.location, "paragraph_index", 0) = para_idx)[1]
        paragraphs == Get(doc_data, "paragraphs", <<>>)
        para == IF para_idx < Len(paragraphs) THEN paragraphs[para_idx + 1] ELSE << >>
    IN  [rule_id |-> first.rule_id,
         rule_name |-> first.rule_name,
         category |-> first.category,
         error_message |-> first.error_message,
         suggestion |-> first.suggestion,
         fix_action |-> Get(first, "fix_action", None),
         fix_params |-> Get(first, "fix_params", None),
         location |-> [type |-> "paragraph",
                       index |-> para_idx,
                       page_number |-> Get(para, "page_number", 1),
                       start_line |-> Get(para, "start_line", 1),
                       end_line |-> Get(para, "end_line", 1),
                       description |-> <<"paragraph_no", para_idx + 1>>]]

AggregateKeepingEveryRun(run_issues, doc_data) ==
    [k \in DOMAIN run_issues |->
        AggregatedIssue(run_issues,
            Get(run_issues[k].location, "paragraph_index", 0), doc_data)]

_aggregate_run_issues_by_paragraph(run_issues, doc_data) ==
    LET para_idxs == Distinct([k \in DOMAIN run_issues |->
                         Get(run_issues[k].location, "paragraph_index", 0)])
    IN  [k \in DOMAIN para_idxs |-> AggregatedIssue(run_issues, para_idxs[k], doc_data)]

(***************************************************************************)
(* StructureChecker._normalize_title.  Characters: "zh_one" is a CJK       *)
(* numeral, "1" and "2" digits, "dun" the enumeration comma, "." the full  *)
(* stop, "(" and ")" the parentheses (ASCII or full width), " " white      *)
(* space, "zh_comma" one of the CJK punctuation marks.                     *)
(***************************************************************************)
CjkNumerals ==
    {"zh_one"}

Whitespace ==
    {" "}

EnumSeparators ==
    {"dun", "."}

CjkPunctuation ==
    {"zh_comma", "dun"}

\* str.strip()
Strip(text) ==
    LET keep == {k \in DOMAIN text : text[k] \notin Whitespace}
    IN  IF keep = {} THEN <<>>
        ELSE SubSeq(text, CHOOSE k \in keep : \A j \in keep : k <= j,
                          CHOOSE k \in keep : \A j \in keep : j <= k)

\* The number of characters of class chars that text holds from position
\* from on, without interruption.
RECURSIVE RunLength(_, _, _)
RunLength(text, from, chars) ==
    IF from <= Len(text) /\ text[from] \in chars
    THEN 1 + RunLength(text, from + 1, chars)
    ELSE 0

\* re.sub(r'^[numerals]+[、.]', '', text)
StripEnumerator(text, numerals) ==
    LET n == RunLength(text, 1, numerals)
    IN  IF n >= 1 /\ n < Len(text) /\ text[n + 1] \in EnumSeparators
        THEN SubSeq(text, n + 2, Len(text))
        ELSE text

\* re.sub(r'^[（(]\s*[numerals]+[）)]', '', text)
StripParenthesized(text, numerals) ==
    IF text # <<>> /\ text[1] = "("
    THEN LET w == RunLength(text, 2, Whitespace)
             n == RunLength(text, 2 + w, numerals)
         IN  IF n >= 1 /\ 2 + w + n <= Len(text) /\ text[2 + w + n] = ")"
             THEN SubSeq(text, 3 + w + n, Len(text))
             ELSE text
    ELSE text

_normalize_title(title) ==
    LET s0 == Strip(title)
        s1 == StripEnumerator(s0, CjkNumerals)
        s2 == StripEnumerator(s1, Digits)
        s3 == StripParenthesized(s2, CjkNumerals)
        s4 == StripParenthesized(s3, Digits)
    IN  SelectSeq(s4, LAMBDA c : c \notin Whitespace \cup CjkPunctuation)

\* a in b, for strings
IsSubstring(a, b) ==
    \E i \in 1..(Len(b) - Len(a) + 1) : SubSeq(b, i, i + Len(a) - 1) = a

\* The fuzzy comparison of two normalized titles: equal, or one within the
\* other.
TitlesMatch(a, b) ==
    a = b \/ IsSubstring(a, b) \/ IsSubstring(b, a)

(***************************************************************************)
(* StructureChecker._get_heading_page                                      *)
(***************************************************************************)
_get_heading_page(doc_data, heading) ==
    LET paragraphs == Get(doc_data, "paragraphs", <<>>)
    IN  IF IsNone(heading, "paragraph_index") THEN 1
        ELSE IF heading["paragraph_index"] < Len(paragraphs)
             THEN Get(paragraphs[heading["paragraph_index"] + 1], "page_number", 1)
             ELSE 1

\* The location of an issue about a heading of the body.
HeadingLocation(doc_data, text, heading) ==
    LET keys == {"type", "text", "page_number"} \cup ({"paragraph_index"} \cap DOMAIN heading)
    IN  [k \in keys |->
            CASE k = "type" -> "heading"
              [] k = "text" -> text
              [] k = "page_number" -> _get_heading_page(doc_data, heading)
              [] OTHER -> heading[k]]

(***************************************************************************)
(* StructureChecker.check_required_sections and _find_section              *)
(***************************************************************************)
_find_section(section_name, found_sections) ==
    \E found \in found_sections :
        TitlesMatch(_normalize_title(section_name), _normalize_title(found))

check_required_sections(doc_data, required) ==
    LET headings == Get(doc_data, "headings", <<>>)
        found_sections == {Strip(Get(headings[k], "text", <<>>)) : k \in DOMAIN headings}
                              \ {<<>>}
        missing == SelectSeq(required, LAMBDA sec : ~_find_section(sec, found_sections))
    IN  [k \in DOMAIN missing |->
            [rule_id |-> "REQUIRED_SECTION_MISSING",
             rule_name |-> <<"missing_required_section", missing[k]>>,
             category |-> "structure",
             error_message |-> <<"required_section_not_found", missing[k]>>,
             suggestion |-> <<"add_section", missing[k]>>,
             location |-> [type |-> "document",
                           description |-> <<"document_structure">>,
                           page_number |-> 1]]]

(***************************************************************************)
(* StructureChecker.check_heading_hierarchy                                *)
(***************************************************************************)
LevelOf(heading) ==
    Get(heading, "level", 1)

JumpIssue(doc_data, prev, curr) ==
    [rule_id |-> "HEADING_LEVEL_JUMP",
     rule_name |-> "heading_level_jump",
     category |-> "structure",
     error_message |-> <<"level_jump_missing", LevelOf(prev), LevelOf(curr),
                         LevelOf(prev) + 1>>,
     suggestion |-> <<"add_heading_between", Get(prev, "text", <<>>),
                      Get(curr, "text", <<>>), LevelOf(prev) + 1>>,
     location |-> HeadingLocation(doc_data, Get(curr, "text", <<>>), curr)]

RECURSIVE HierarchyIssuesFrom(_, _, _)
HierarchyIssuesFrom(doc_data, headings, i) ==
    IF i > Len(headings) THEN <<>>
    ELSE LET prev == headings[i - 1]
             curr == headings[i]
             here == IF LevelOf(curr) = 1 THEN <<>>
                     ELSE IF LevelOf(curr) > LevelOf(prev) + 1
                          THEN <<JumpIssue(doc_data, prev, curr)>>
                          ELSE <<>>
         IN  here \o HierarchyIssuesFrom(doc_data, headings, i + 1)

HierarchyFlaggingTopLevel(doc_data) ==
    LET headings == Get(doc_data, "headings", <<>>)
        jumps == {i \in 2..Len(headings) :
                     LevelOf(headings[i]) # LevelOf(headings[i - 1])
                     /\ LevelOf(headings[i]) # LevelOf(headings[i - 1]) + 1}
        order == SortedSet(jumps)
    IN  [k \in DOMAIN order |->
            JumpIssue(doc_data, headings[order[k] - 1], headings[order[k]])]

check_heading_hierarchy(doc_data) ==
    LET headings == Get(doc_data, "headings", <<>>)
    IN  IF Len(headings) < 2 THEN <<>>
        ELSE HierarchyIssuesFrom(doc_data, headings, 2)

(***************************************************************************)
(* StructureChecker.check_toc_body_consistency                             *)
(***************************************************************************)
RECURSIVE Flatten(_)
Flatten(ss) ==
    IF ss = <<>> THEN <<>> ELSE Head(ss) \o Flatten(Tail(ss))

\* The dictionary toc_titles / body_titles: its keys are the normalized
\* titles of the items with a non-empty title, in order of first
\* occurrence; a later item with the same normalized title replaces the
\* value of an earlier one.
TitleKeys(items, field) ==
    LET titled == SelectSeq(items, LAMBDA e : Strip(Get(e, field, <<>>)) # <<>>)
    IN  Distinct([k \in DOMAIN titled |-> _normalize_title(Strip(titled[k][field]))])

TitleValue(items, field, normalized) ==
    LET same == SelectSeq(items,
                    LAMBDA e : /\ Strip(Get(e, field, <<>>)) # <<>>
                               /\ _normalize_title(Strip(e[field])) = normalized)
        last == same[Len(same)]
    IN  [original |-> Strip(last[field]), level |-> Get(last, "level", 1), item |-> last]

\* Check 1 for one key of toc_titles: the body title it resolves to is the
\* equal one or else the first one (in dictionary order) that contains it
\* or is contained in it.
TocEntryIssues(doc_data, toc_entries, body_headings, normalized_toc) ==
    LET toc_data == TitleValue(toc_entries, "title", normalized_toc)
        body_keys == TitleKeys(body_headings, "text")
        fuzzy == SelectSeq(body_keys,
                     LAMBDA b : IsSubstring(normalized_toc, b) \/ IsSubstring(b, normalized_toc))
        found == normalized_toc \in Range(body_keys) \/ fuzzy # <<>>
        matching_body == IF normalized_toc \in Range(body_keys)
                         THEN TitleValue(body_headings, "text", normalized_toc)
                         ELSE TitleValue(body_headings, "text", fuzzy[1])
    IN  IF ~found
        THEN << [rule_id |-> "TOC_ENTRY_NOT_FOUND",
                 rule_name |-> "toc_entry_not_in_body",
                 category |-> "structure",
                 error_message |-> <<"toc_entry_has_no_heading", toc_data.original>>,
                 suggestion |-> <<"check_toc_entry", toc_data.original>>,
                 location |-> [type |-> "toc",
                               description |-> <<"toc_entry", toc_data.original>>,
                               page_number |-> 1]] >>
        ELSE IF toc_data.level # matching_body.level
             THEN << [rule_id |-> "TOC_LEVEL_MISMATCH",
                      rule_name |-> "toc_level_differs_from_body",
                      category |-> "structure",
                      error_message |-> <<"toc_level_differs", toc_data.original,
                                          toc_data.level, matching_body.level>>,
                      suggestion |-> <<"check_levels", toc_data.original>>,
                      location |-> HeadingLocation(doc_data, toc_data.original,
                                                   matching_body.item)] >>
             ELSE <<>>

\* Check 2 for one level-1 heading of the body.
HeadingNotInTocIssues(doc_data, toc_entries, heading) ==
    LET title == Strip(Get(heading, "text", <<>>))
        toc_keys == TitleKeys(toc_entries, "title")
    IN  IF title = <<>> THEN <<>>
        ELSE IF \E k \in DOMAIN toc_keys : TitlesMatch(_normalize_title(title), toc_keys[k])
             THEN <<>>
             ELSE << [rule_id |-> "HEADING_NOT_IN_TOC",
                      rule_name |-> "heading_not_in_toc",
                      category |-> "structure",
                      error_message |-> <<"level1_heading_not_in_toc", title>>,
                      suggestion |-> <<"add_to_toc", title>>,
                      location |-> HeadingLocation(doc_data, title, heading)] >>

TocMissingIssue ==
    [rule_id |-> "TOC_MISSING",
     rule_name |-> "toc_missing",
     category |-> "structure",
     error_message |-> <<"no_toc_found">>,
     suggestion |-> <<"add_toc">>,
     location |-> [type |-> "document", description |-> <<"document_front">>,
                   page_number |-> 1]]

TocEmptyIssue ==
    [rule_id |-> "TOC_EMPTY",
     rule_name |-> "toc_empty",
     category |-> "structure",
     error_message |-> <<"toc_has_no_entries">>,
     suggestion |-> <<"fill_toc">>,
     location |-> [type |-> "toc", description |-> <<"toc">>, page_number |-> 1]]

TocChecks(doc_data) ==
    LET toc == Get(doc_data, "table_of_contents", << >>)
        toc_entries == Get(toc, "entries", <<>>)
        body_headings == Get(doc_data, "headings", <<>>)
        toc_keys == TitleKeys(toc_entries, "title")
        level_1_headings == SelectSeq(body_headings,
                                LAMBDA h : ~IsNone(h, "level") /\ h["level"] = 1)
    IN  Flatten([k \in DOMAIN toc_keys |->
                    TocEntryIssues(doc_data, toc_entries, body_headings, toc_keys[k])])
        \o Flatten([k \in DOMAIN level_1_headings |->
                    HeadingNotInTocIssues(doc_data, toc_entries, level_1_headings[k])])

TocConsistencyWithoutShortCircuit(doc_data) ==
    LET toc == Get(doc_data, "table_of_contents", << >>)
    IN  (IF ~Get(toc, "exists", FALSE) THEN <<TocMissingIssue>> ELSE <<>>)
        \o (IF Get(toc, "entries", <<>>) = <<>> THEN <<TocEmptyIssue>> ELSE <<>>)
        \o TocChecks(doc_data)

check_toc_body_consistency(doc_data) ==
    LET toc == Get(doc_data, "table_of_contents", << >>)
    IN  IF ~Get(toc, "exists", FALSE) THEN <<TocMissingIssue>>
        ELSE IF Get(toc, "entries", <<>>) = <<>> THEN <<TocEmptyIssue>>
             ELSE TocChecks(doc_data)

(***************************************************************************)
(* RuleEngine._check_structure_rule                                        *)
(***************************************************************************)
\* issue.setdefault(...) for the rule fields; fix_action and fix_params are
\* taken from the rule when the issue has none.
WithRuleFields(issue, rule) ==
    LET keys == DOMAIN issue \cup {"rule_id", "rule_name", "category", "error_message",
                                   "suggestion", "fix_action", "fix_params"}
    IN  [k \in keys |->
            IF k \in DOMAIN issue THEN issue[k]
            ELSE CASE k = "rule_id" -> Get(rule, "id", None)
                   [] k = "rule_name" -> Get(rule, "name", "")
                   [] k = "category" -> Get(rule, "category", "structure")
                   [] k = "error_message" -> Get(rule, "error_message", "")
                   [] k = "suggestion" -> Get(rule, "suggestion", "")
                   [] k = "fix_action" -> Get(rule, "fix_action", None)
                   [] k = "fix_params" -> Get(rule, "fix_params", None)]

StructureIssues(rule, doc_data) ==
    LET rule_id == Get(rule, "id", None)
        required == Get(Get(rule, "condition", << >>), "required_sections", <<>>)
    IN  CASE rule_id = "REQUIRED_SECTIONS_CHECK" ->
                IF required # <<>> THEN check_required_sections(doc_data, required)
                ELSE <<>>
          [] rule_id = "TOC_BODY_CONSISTENCY" -> check_toc_body_consistency(doc_data)
          [] rule_id = "HEADING_HIERARCHY_CHECK" -> check_heading_hierarchy(doc_data)
          [] OTHER -> <<>>

_check_structure_rule(rule, doc_data) ==
    LET found == StructureIssues(rule, doc_data)
    IN  [k \in DOMAIN found |-> WithRuleFields(found[k], rule)]

(***************************************************************************)
(* RuleEngine._check_rule                                                  *)
(***************************************************************************)
\* The targets of the rule that do not match its condition, in order.
ViolatingTargets(rule, doc_data) ==
    LET category == Get(rule, "category", None)
        match_type == Get(rule, "match", "document")
        condition == Get(rule, "condition", << >>)
    IN  SelectSeq(_get_check_targets(doc_data, match_type, category),
            LAMBDA t : ~_match_condition(t, condition, category, match_type))

_check_rule(rule, doc_data) ==
    LET match_type == Get(rule, "match", "document")
        violating == ViolatingTargets(rule, doc_data)
        found == [k \in DOMAIN violating |-> _create_issue(rule, violating[k], match_type)]
    IN  IF Get(rule, "category", None) = "structure"
        THEN _check_structure_rule(rule, doc_data)
        ELSE IF match_type = "run" /\ found # <<>>
             THEN _aggregate_run_issues_by_paragraph(found, doc_data)
             ELSE found

(***************************************************************************)
(* The state machine.  check_document_sync (mode = "sync") and             *)
(* check_document without an AI checker (mode = "async") walk the rule     *)
(* list (pc = "check", one rule per step), then merge the collected raw    *)
(* issues (pc = "merge") and return (pc = "done").  Merging the returned   *)
(* list once more leads to pc = "remerged".                                *)
(***************************************************************************)
\* The issues one iteration of the rule loop adds.  check_document_sync
\* skips the rules whose checker is "ai"; check_document runs the
\* deterministic and the hybrid rules and, with AI checking disabled, adds
\* nothing for any other checker.
RuleIssues(rule, doc_data, m) ==
    IF m = "sync"
    THEN IF Get(rule, "checker", None) = "ai" THEN <<>> ELSE _check_rule(rule, doc_data)
    ELSE IF Get(rule, "checker", "deterministic") \in {"deterministic", "hybrid"}
         THEN _check_rule(rule, doc_data)
         ELSE <<>>

\* One iteration of `for rule in self.rules`.
CheckNextRule ==
    /\ pc = "check"
    /\ ruleIdx <= Len(rules)
    /\ issues' = issues \o RuleIssues(rules[ruleIdx], doc, mode)
    /\ ruleIdx' = ruleIdx + 1
    /\ pc' = IF ruleIdx = Len(rules) THEN "merge" ELSE "check"
    /\ UNCHANGED <<doc, rules, mode, merged, remerged, fs, revs, user, reqs, checks, orders>>

EmptyDoc ==
    [page_settings |-> << >>, paragraphs |-> <<>>, runs |-> <<>>,
     headings |-> <<>>, table_of_contents |-> << >>]

\* merged_issues = self._merge_issues_by_rule(issues)
MergeIssues ==
    /\ pc = "merge"
    /\ merged' = _merge_issues_by_rule(issues)
    /\ pc' = "done"
    /\ UNCHANGED <<doc, rules, mode, ruleIdx, issues, remerged, fs, revs, user, reqs, checks, orders>>

\* _merge_issues_by_rule applied to its own output.
ReMerge ==
    /\ pc = "done"
    /\ remerged' = _merge_issues_by_rule(merged)
    /\ pc' = "remerged"
    /\ UNCHANGED <<doc, rules, mode, ruleIdx, issues, merged, fs, revs, user, reqs, checks, orders>>

(***************************************************************************)
(* SpecMerge: _merge_issues_by_rule on every list of at most MaxIssues raw *)
(* issues over two rule ids, two rule names and locations of every kind.   *)
(***************************************************************************)
MergeLocations ==
    {[type |-> "paragraph", index |-> 0, page_number |-> 1, start_line |-> 1,
      end_line |-> 2, description |-> <<"page_paragraph_lines", 1, 1, 1, 2>>],
     [type |-> "paragraph", index |-> 1, page_number |-> 2, start_line |-> 1,
      end_line |-> 1, description |-> <<"page_paragraph_lines", 2, 2, 1, 1>>],
     [type |-> "document", description |-> <<"whole_document">>],
     [type |-> "merged", description |-> <<"n_locations", 1>>, count |-> 1]}

MergeRawIssues ==
    {[rule_id |-> r, rule_name |-> n, category |-> "font",
      error_message |-> "format_error", suggestion |-> "", fix_action |-> None,
      fix_params |-> None, location |-> l] :
        r \in {"FONT_CHECK", "MARGIN_CHECK"}, n \in {"name_a", "name_b"},
        l \in MergeLocations}

InitMerge ==
    /\ doc = EmptyDoc
    /\ rules = <<>>
    /\ mode = "sync"
    /\ ruleIdx = 1
    /\ issues \in SeqsUpTo(MergeRawIssues, MaxIssues)
    /\ merged = <<>>
    /\ remerged = <<>>
    /\ pc = "merge"
    /\ NoRevision
    /\ NoSubmission

NextMerge ==
    MergeIssues \/ ReMerge

SpecMerge ==
    InitMerge /\ [][NextMerge]_vars

\* The rule metadata of an issue, raw or merged.
Metadata(i) ==
    <<i.rule_id, i.rule_name, i.category, i.error_message, i.suggestion,
      Get(i, "fix_action", None), Get(i, "fix_params", None)>>

\* C1 (as stated): merging the merged output again yields the same issue
\* list, merge(merge(X)) = merge(X).
C1_MergeIdempotent ==
    pc = "remerged" => remerged = merged

\* C1 (amended): merging the merged output again keeps the issues, their
\* order and their rule metadata, but not the locations: every issue of the
\* second merge has as raw_locations the one summary location of the first
\* merge, and a summary location that counts one place.
C1_RemergeKeepsIssuesNotLocations ==
    pc = "remerged" =>
        /\ Len(remerged) = Len(merged)
        /\ \A k \in DOMAIN merged :
            /\ Metadata(remerged[k]) = Metadata(merged[k])
            /\ remerged[k].raw_locations = <<merged[k].location>>
            /\ remerged[k].location =
                 [type |-> "merged", description |-> <<"n_locations", 1>>,
                  count |-> 1]

\* C1 witness: a rule with two raw locations has been merged twice.
C1_Witness ==
    /\ pc = "remerged"
    /\ \E k \in DOMAIN merged :
        /\ Len(merged[k].raw_locations) = 2
        /\ Len(remerged[k].raw_locations) = 1

\* C2: the raw_locations of the merged issues, taken together, are the
\* locations of the raw issues as a multiset, each under its own rule id:
\* for every rule id and location, the location occurs under that rule id
\* as often after the merge as before, and no rule id appears twice.
C2_MergeLossless ==
    pc \in {"done", "remerged"} =>
        /\ \A j, k \in DOMAIN merged :
               merged[j].rule_id = merged[k].rule_id => j = k
        /\ \A r \in {issues[k].rule_id : k \in DOMAIN issues}
                  \cup {merged[k].rule_id : k \in DOMAIN merged} :
           \A l \in {issues[k].location : k \in DOMAIN issues}
                  \cup UNION {Range(merged[k].raw_locations) : k \in DOMAIN merged} :
               Cardinality({k \in DOMAIN issues :
                               issues[k].rule_id = r /\ issues[k].location = l})
                 = SeqSum([k \in DOMAIN merged |->
                       IF merged[k].rule_id = r
                       THEN Cardinality({n \in DOMAIN merged[k].raw_locations :
                                           merged[k].raw_locations[n] = l})
                       ELSE 0])

\* C2 witness: two rules were merged, one of them with the same location
\* twice.
C2_Witness ==
    /\ pc = "done"
    /\ Len(merged) = 2
    /\ \E k \in DOMAIN merged :
        /\ Len(merged[k].raw_locations) = 2
        /\ merged[k].raw_locations[1] = merged[k].raw_locations[2]

(***************************************************************************)
(* The checking of one document: the state before the rule loop, and the   *)
(* steps of check_document_sync / check_document.                          *)
(***************************************************************************)
Start(d, rs, m) ==
    /\ doc = d
    /\ rules = rs
    /\ mode = m
    /\ ruleIdx = 1
    /\ issues = <<>>
    /\ merged = <<>>
    /\ remerged = <<>>
    /\ pc = IF rs = <<>> THEN "merge" ELSE "check"
    /\ NoRevision
    /\ NoSubmission

NextCheck ==
    CheckNextRule \/ MergeIssues

\* The rule loop is over: `issues` holds the raw issues of all rules.
Checked ==
    pc \in {"merge", "done"}

(***************************************************************************)
(* SpecPage: one page rule on documents whose margins lie at, next to and  *)
(* off the tolerance boundary.                                             *)
(***************************************************************************)
Subrecords(r) ==
    {[k \in K |-> r[k]] : K \in SUBSET DOMAIN r}

PageDocs ==
    {[EmptyDoc EXCEPT !.page_settings = [margins |-> m, paper_size |-> ps]] :
        m \in UNION {Subrecords([top_mm |-> t, bottom_mm |-> b, left_mm |-> 3170,
                                 right_mm |-> 3170]) :
                        t \in {2339, 2340, 2540, 2740, 2741}, b \in {2540, 2490, 2489}},
        ps \in {[width_mm |-> 21000, height_mm |-> 29700],
                [width_mm |-> 21590, height_mm |-> 27940]}}

PageRules ==
    {[id |-> "MARGIN_CHECK", name |-> "page_margins", category |-> "page",
      match |-> "document", condition |-> c, fix_action |-> "set_page_margin"] :
        c \in Subrecords([top_mm |-> 2540, bottom_mm |-> 2540, left_mm |-> 3170,
                          tolerance_mm |-> 200, paper_name |-> "A4"])}

InitPage ==
    \E d \in PageDocs, r \in PageRules : Start(d, <<r>>, "sync")

SpecPage ==
    InitPage /\ [][NextCheck]_vars

\* The margin of a side as the check reads it, and the tolerance in force.
ActualMargin(side) ==
    Get(Get(doc.page_settings, "margins", << >>), side, 0)

ToleranceOf(condition) ==
    IF "tolerance_mm" \in DOMAIN condition THEN condition["tolerance_mm"]
    ELSE DefaultToleranceMm

SidesWithin(condition) ==
    \A side \in Range(MarginKeys) \cap DOMAIN condition :
        /\ ActualMargin(side) - condition[side] <= ToleranceOf(condition)
        /\ condition[side] - ActualMargin(side) <= ToleranceOf(condition)

\* C5: the page margin check passes exactly when every side named in the
\* condition is within the tolerance of its expected margin, boundary
\* included (a condition that also names a paper size passes when, in
\* addition, the paper size fits); with target top margin 25.4mm and
\* tolerance 2mm, 27.4mm passes and 27.41mm fails.
C5_MarginTolerance ==
    (Checked /\ Len(rules) = 1 /\ rules[1].category = "page") =>
        LET condition == rules[1].condition
        IN  /\ issues = <<>> => SidesWithin(condition)
            /\ ~SidesWithin(condition) => Len(issues) = 1
            /\ (SidesWithin(condition) /\ "paper_name" \notin DOMAIN condition)
                  => issues = <<>>
            /\ (condition = [top_mm |-> 2540, tolerance_mm |-> 200]
                  /\ ActualMargin("top_mm") = 2740) => issues = <<>>
            /\ (condition = [top_mm |-> 2540, tolerance_mm |-> 200]
                  /\ ActualMargin("top_mm") = 2741) => Len(issues) = 1

\* C5 witness: target 25.4mm, tolerance 2mm, actual 27.4mm has been checked
\* and passed.
C5_Witness ==
    /\ Checked
    /\ Len(rules) = 1
    /\ rules[1].category = "page"
    /\ rules[1].condition = [top_mm |-> 2540, tolerance_mm |-> 200]
    /\ ActualMargin("top_mm") = 2740
    /\ issues = <<>>

(***************************************************************************)
(* SpecFont: one font rule or one heading rule on a document with one body *)
(* paragraph (index 0) of one run and one heading (paragraph index 1),     *)
(* over fonts with and without a name, a size and a bold flag.             *)
(***************************************************************************)
\* The fonts of the model; OptionalFonts are the values of the key "font"
\* of a target: <<>> when the target has no such key, else <<font>>.
Fonts ==
    UNION {Subrecords([name |-> n, size_pt |-> sz, bold |-> TRUE]) :
              n \in {<<"SimSun">>, <<"Arial", "SimSun">>}, sz \in {120, 140}}

OptionalFonts ==
    {<<>>} \cup {<<f>> : f \in Fonts}

WithFont(target, of) ==
    IF of = <<>> THEN target ELSE target @@ [font |-> of[1]]

GoodFont ==
    [name |-> <<"SimSun">>, size_pt |-> 120, bold |-> TRUE]

BodyFormatting ==
    [first_line_indent_chars |-> 20, line_spacing_pt |-> 200]

Paragraph(idx, text, page, start_line, end_line, of) ==
    WithFont([index |-> idx, text |-> text, page_number |-> page,
              start_line |-> start_line, end_line |-> end_line,
              formatting |-> BodyFormatting], of)

Run(para_idx, text, of) ==
    WithFont([paragraph_index |-> para_idx, text |-> text], of)

Heading(level, text, para_idx, of) ==
    WithFont([level |-> level, text |-> text, paragraph_index |-> para_idx,
              alignment |-> "center"], of)

\* A document of two paragraphs: a body paragraph with one run, and a
\* heading.
FontDoc(text, of, level, htext, hof) ==
    [EmptyDoc EXCEPT
        !.paragraphs = <<Paragraph(0, text, 1, 1, 2, of), Paragraph(1, htext, 1, 3, 3, hof)>>,
        !.runs = <<Run(0, text, of), Run(1, htext, hof)>>,
        !.headings = <<Heading(level, htext, 1, hof)>>]

FontDocs ==
    {FontDoc(text, of, 1, <<"A">>, <<GoodFont>>) :
        text \in {<<"zh1">>, <<"A">>, <<"zh1", "A">>}, of \in OptionalFonts}
    \cup
    {FontDoc(<<"zh1">>, <<GoodFont>>, level, htext, hof) :
        level \in {1, 2}, htext \in {<<"A">>, <<"1", ".", "A">>}, hof \in OptionalFonts}

FontRules ==
    {[id |-> "FONT_CHECK", name |-> "body_font", category |-> "font", match |-> m,
      condition |-> c, fix_action |-> "set_font"] :
        m \in {"run", "paragraph", "heading"},
        c \in Subrecords([chinese_font |-> <<"zh:SongTi">>, english_font |-> <<"Arial">>,
                          chinese_size_pt |-> 120, english_size_pt |-> 105])}

HeadingRules ==
    {[id |-> "HEADING_STYLE", name |-> "heading_style", category |-> "heading",
      match |-> m, condition |-> c, fix_action |-> "set_heading_style"] :
        m \in {"heading", "section"},
        c \in {[level1 |-> lc] @@ n :
                  lc \in Subrecords([font |-> <<"SimSun">>, size_pt |-> 160,
                                     bold |-> FALSE, alignment |-> "left"]),
                  n \in Subrecords([number_style |-> "decimal"])}}

InitFont ==
    \E d \in FontDocs, r \in FontRules \cup HeadingRules : Start(d, <<r>>, "sync")

SpecFont ==
    InitFont /\ [][NextCheck]_vars

\* The font name or the font size of the target is missing.
MissingFontInfo(target) ==
    \/ "font" \notin DOMAIN target
    \/ "name" \notin DOMAIN target["font"]
    \/ "size_pt" \notin DOMAIN target["font"]

\* Some raw issue is about the paragraph with this index: its location
\* names the paragraph, or it names nothing and the paragraph is the only
\* target of its kind.
IssueAbout(para_idx) ==
    \E k \in DOMAIN issues :
        LET l == issues[k].location
        IN  CASE l.type = "paragraph" -> l.index = para_idx
              [] l.type = "heading" -> l.paragraph_index = para_idx
              [] l.type = "section" -> para_idx = 1
              [] OTHER -> FALSE

\* The targets of the rule that lack font information stay without issue.
NoIssueForMissingFont ==
    /\ rules[1].match \in {"run", "paragraph"} =>
          \A k \in DOMAIN doc.runs :
              MissingFontInfo(doc.runs[k]) => ~IssueAbout(doc.runs[k].paragraph_index)
    /\ rules[1].match \in {"heading", "section"} =>
          \A k \in DOMAIN doc.headings :
              MissingFontInfo(doc.headings[k])
                  => ~IssueAbout(doc.headings[k].paragraph_index)

\* C4 (as stated): for every font-category and every heading-category
\* condition, a run or heading whose font name or size is missing passes
\* and produces no issue.
C4_SkipOnUncertainty ==
    (Checked /\ Len(rules) = 1 /\ rules[1].category \in {"font", "heading"})
        => NoIssueForMissingFont

\* C4 (amended): the same, for every font-category condition and for every
\* heading-category condition matched on headings; the numbering check of
\* a heading rule matched on sections does not read the font.
C4_SkipOnUncertaintyOfStyleChecks ==
    (/\ Checked
     /\ Len(rules) = 1
     /\ rules[1].category \in {"font", "heading"}
     /\ ~(rules[1].category = "heading" /\ rules[1].match = "section"))
        => NoIssueForMissingFont

\* C4 witness: a Chinese run with a font size but no font name has been
\* checked against an expected Chinese font and size, without an issue.
C4_Witness ==
    /\ Checked
    /\ Len(rules) = 1
    /\ rules[1].category = "font"
    /\ rules[1].match = "run"
    /\ {"chinese_font", "chinese_size_pt"} \subseteq DOMAIN rules[1].condition
    /\ doc.runs[1].text = <<"zh1">>
    /\ "font" \in DOMAIN doc.runs[1]
    /\ DOMAIN doc.runs[1].font = {"size_pt", "bold"}
    /\ doc.runs[1].font.size_pt = 140
    /\ issues = <<>>

(***************************************************************************)
(* SpecRuns: one font or paragraph rule, matched on runs or on paragraphs, *)
(* on a document of two paragraphs with up to MaxRuns runs in document     *)
(* order; a run has the expected font (SimSun) or another one (Arial), a   *)
(* paragraph the expected indent or none, and either paragraph may be a    *)
(* heading.                                                                *)
(***************************************************************************)
NumParagraphs ==
    2

BadFont ==
    [name |-> <<"Arial">>, size_pt |-> 120, bold |-> FALSE]

\* The runs of a document: each run is <<paragraph index, font>>, and the
\* runs of a paragraph follow those of the paragraphs before it.
RunLayouts ==
    {rs \in SeqsUpTo((0..(NumParagraphs - 1)) \X {GoodFont, BadFont}, MaxRuns) :
        \A k \in 1..(Len(rs) - 1) : rs[k][1] <= rs[k + 1][1]}

\* The paragraph with index idx: its font is the font of its first run.
RunsParagraph(idx, layout, indented) ==
    LET own == SelectSeq(layout, LAMBDA r : r[1] = idx)
        base == [index |-> idx, text |-> <<"zh1">>, page_number |-> 1,
                 start_line |-> idx + 1, end_line |-> idx + 1,
                 formatting |-> IF idx \in indented
                                THEN [first_line_indent_chars |-> 20]
                                ELSE [first_line_indent_chars |-> 0]]
    IN  IF own = <<>> THEN base ELSE base @@ [font |-> own[1][2]]

RunsDoc(layout, indented, heading_paras) ==
    LET hs == SortedSet(heading_paras)
    IN  [EmptyDoc EXCEPT
            !.paragraphs = [k \in 1..NumParagraphs |-> RunsParagraph(k - 1, layout, indented)],
            !.runs = [k \in DOMAIN layout |->
                         [paragraph_index |-> layout[k][1], text |-> <<"zh1">>,
                          font |-> layout[k][2]]],
            !.headings = [k \in DOMAIN hs |->
                             [level |-> 1, text |-> <<"zh1">>, paragraph_index |-> hs[k],
                              alignment |-> "center", font |-> GoodFont]]]

RunsDocs ==
    {RunsDoc(layout, indented, hp) :
        layout \in RunLayouts,
        indented \in SUBSET (0..(NumParagraphs - 1)),
        hp \in {{}, {0}, {1}}}

RunsRules ==
    {[id |-> "BODY_CHECK", name |-> "body_text", category |-> c, match |-> m,
      condition |-> IF c = "font" THEN [chinese_font |-> <<"SimSun">>]
                    ELSE [first_line_indent_chars |-> 20]] :
        c \in {"font", "paragraph"}, m \in {"run", "paragraph"}}

InitRuns ==
    \E d \in RunsDocs, r \in RunsRules : Start(d, <<r>>, "sync")

SpecRuns ==
    InitRuns /\ [][NextCheck]_vars

\* The paragraph with this index is owned by a heading.
HeadingOwned(para_idx) ==
    \E k \in DOMAIN doc.headings : doc.headings[k].paragraph_index = para_idx

\* The runs the rule checks: all runs, or for a font rule the runs outside
\* the headings.
CheckedRuns(rule) ==
    {k \in DOMAIN doc.runs :
        rule.category = "font" => ~HeadingOwned(doc.runs[k].paragraph_index)}

\* The checked runs of the paragraph that violate the condition of the rule.
ViolatingRuns(rule, para_idx) ==
    {k \in CheckedRuns(rule) :
        /\ doc.runs[k].paragraph_index = para_idx
        /\ ~_match_condition(doc.runs[k], rule.condition, rule.category, "run")}

\* C6: a rule matched at run level yields exactly one issue location for
\* every paragraph with at least one violating run, whatever their number,
\* and none for a paragraph without a violating run.
C6_OneLocationPerParagraph ==
    (Checked /\ Len(rules) = 1 /\ rules[1].match = "run") =>
        /\ \A k \in DOMAIN issues : issues[k].location.type = "paragraph"
        /\ \A p \in 0..(NumParagraphs - 1) :
               Cardinality({k \in DOMAIN issues : issues[k].location.index = p})
                 = IF ViolatingRuns(rules[1], p) # {} THEN 1 ELSE 0
        /\ \A k \in DOMAIN issues : issues[k].location.index \in 0..(NumParagraphs - 1)

\* C6 witness: five runs of one paragraph violate the font rule and the
\* paragraph has one issue location.
C6_Witness ==
    /\ Checked
    /\ Len(rules) = 1
    /\ rules[1].match = "run"
    /\ rules[1].category = "font"
    /\ Cardinality(ViolatingRuns(rules[1], 0)) = 5
    /\ Len(issues) = 1
    /\ issues[1].location.index = 0

\* No raw issue is located at a paragraph that a heading owns.
NoIssueAtHeading ==
    \A k \in DOMAIN issues :
        /\ issues[k].location.type = "paragraph"
        /\ ~HeadingOwned(issues[k].location.index)

\* C7 (as stated): for every rule of category "paragraph" or "font", no
\* issue location refers to a paragraph owned by a heading.
C7_BodyOnly ==
    (Checked /\ Len(rules) = 1 /\ rules[1].category \in {"paragraph", "font"})
        => NoIssueAtHeading

\* C7 (amended): for every "paragraph" rule matched on paragraphs and every
\* "font" rule matched on runs, no issue location refers to a paragraph
\* owned by a heading.
C7_BodyOnlyForOwnMatchType ==
    (/\ Checked
     /\ Len(rules) = 1
     /\ \/ rules[1].category = "paragraph" /\ rules[1].match = "paragraph"
        \/ rules[1].category = "font" /\ rules[1].match = "run")
        => NoIssueAtHeading

\* C7 witness: a font rule matched on runs has been checked on a document
\* whose heading paragraph holds a run of the wrong font, and the one issue
\* found is at the body paragraph.
C7_Witness ==
    /\ Checked
    /\ Len(rules) = 1
    /\ rules[1].category = "font"
    /\ rules[1].match = "run"
    /\ HeadingOwned(1)
    /\ \E k \in DOMAIN doc.runs :
           doc.runs[k].paragraph_index = 1 /\ doc.runs[k].font = BadFont
    /\ Len(issues) = 1
    /\ issues[1].location.index = 0

(***************************************************************************)
(* SpecStructure: one structure rule on a document given by its headings   *)
(* and its table of contents.  The hierarchy rule runs on up to            *)
(* MaxHeadings headings of level 1 to 3 or without level; the TOC rule and *)
(* the required-sections rule run on up to MaxBodyHeadings numbered and    *)
(* unnumbered headings and a TOC that is absent, empty or of up to         *)
(* MaxTocEntries entries.                                                  *)
(***************************************************************************)
StructParagraph(idx) ==
    [index |-> idx, text |-> <<"A">>, page_number |-> 1 + (idx \div 2),
     start_line |-> 1, end_line |-> 1]

\* The document with these headings (each <<text, <<level>> or <<>>>>, in
\* paragraphs 0, 1, ...) and this table of contents.
StructDoc(hs, toc) ==
    [EmptyDoc EXCEPT
        !.paragraphs = [k \in 1..(Len(hs) + 1) |-> StructParagraph(k - 1)],
        !.headings = [k \in DOMAIN hs |->
                         IF hs[k][2] = <<>>
                         THEN [text |-> hs[k][1], paragraph_index |-> k - 1]
                         ELSE [text |-> hs[k][1], paragraph_index |-> k - 1,
                               level |-> hs[k][2][1]]],
        !.table_of_contents = toc]

HierarchyDocs ==
    {StructDoc(hs, [exists |-> FALSE, entries |-> <<>>]) :
        hs \in SeqsUpTo({<<"A">>} \X {<<>>, <<1>>, <<2>>, <<3>>}, MaxHeadings)}

\* "1. A", "AB", "<one>、B" in the body; "A", "B", "(1)A", "C" in the TOC.
BodyTitles ==
    {<<"1", ".", " ", "A">>, <<"A", "B">>, <<"zh_one", "dun", "B">>}

TocTitleTexts ==
    {<<"A">>, <<"B">>, <<"(", "1", ")", "A">>, <<"C">>}

TocEntry(title, level, idx) ==
    [title |-> title, level |-> level, page_number |-> 1, paragraph_index |-> idx]

Tocs ==
    {<< >>, [exists |-> TRUE], [exists |-> FALSE, entries |-> <<>>],
     [exists |-> FALSE, entries |-> <<TocEntry(<<"A">>, 1, 1)>>]}
    \cup
    {[exists |-> TRUE, paragraph_index |-> 0,
      entries |-> [k \in DOMAIN es |-> TocEntry(es[k][1], es[k][2], k)]] :
        es \in SeqsUpTo(TocTitleTexts \X {1, 2}, MaxTocEntries)}

TocDocs ==
    {StructDoc(hs, toc) :
        hs \in SeqsUpTo(BodyTitles \X {<<1>>, <<2>>}, MaxBodyHeadings), toc \in Tocs}

StructureRule(id, condition) ==
    [id |-> id, name |-> "structure_check", category |-> "structure",
     match |-> "document", condition |-> condition]

InitStructure ==
    \/ \E d \in HierarchyDocs :
          Start(d, <<StructureRule("HEADING_HIERARCHY_CHECK", << >>)>>, "sync")
    \/ \E d \in TocDocs :
          Start(d, <<StructureRule("TOC_BODY_CONSISTENCY", << >>)>>, "sync")
    \/ \E d \in TocDocs, req \in SeqsUpTo({<<"A">>, <<"C">>}, 2) :
          /\ d.table_of_contents = << >>
          /\ Start(d, <<StructureRule("REQUIRED_SECTIONS_CHECK",
                                      [required_sections |-> req])>>, "sync")

SpecStructure ==
    InitStructure /\ [][NextCheck]_vars

\* The rule that has been checked is the structure rule with this id.
StructureChecked(id) ==
    Checked /\ Len(rules) = 1 /\ rules[1].category = "structure" /\ rules[1].id = id

\* The level of the k-th heading as the checker reads it.
HeadingLevel(k) ==
    IF "level" \in DOMAIN doc.headings[k] THEN doc.headings[k].level ELSE 1

\* The levels of the headings of the document.
HeadingLevels ==
    [k \in DOMAIN doc.headings |-> HeadingLevel(k)]

\* The positions of the headings that jump: not of level 1 and more than
\* one level deeper than the heading before.
Jumps ==
    {k \in 2..Len(doc.headings) :
        HeadingLevel(k) # 1 /\ HeadingLevel(k) - HeadingLevel(k - 1) >= 2}

\* C8: check_heading_hierarchy reports exactly one jump issue for each
\* heading after the first that is not of level 1 and is more than one
\* level deeper than the heading before it, naming level (previous + 1) as
\* the missing one, and nothing else; [1,2,3] and [1,1,2] give no issue,
\* [1,3] gives one issue naming level 2.
C8_HierarchyJumps ==
    StructureChecked("HEADING_HIERARCHY_CHECK") =>
        /\ Len(issues) = Cardinality(Jumps)
        /\ \A k \in DOMAIN issues :
              /\ issues[k].rule_id = "HEADING_LEVEL_JUMP"
              /\ issues[k].location.paragraph_index + 1 \in Jumps
              /\ issues[k].error_message[4]
                   = HeadingLevel(issues[k].location.paragraph_index) + 1
        /\ \A j, k \in DOMAIN issues :
              j < k => issues[j].location.paragraph_index
                         < issues[k].location.paragraph_index
        /\ HeadingLevels \in {<<1, 2, 3>>, <<1, 1, 2>>} => issues = <<>>
        /\ HeadingLevels = <<1, 3>> =>
              Len(issues) = 1 /\ issues[1].error_message[4] = 2

\* C8 witness: the headings [1,3] have been checked, with one issue that
\* names level 2.
C8_Witness ==
    /\ StructureChecked("HEADING_HIERARCHY_CHECK")
    /\ HeadingLevels = <<1, 3>>
    /\ Len(issues) = 1
    /\ issues[1].error_message[4] = 2

\* The entries of the TOC and the headings of the body.
TocEntries ==
    Get(doc.table_of_contents, "entries", <<>>)

TocExists ==
    Get(doc.table_of_contents, "exists", FALSE)

\* The TOC entry matches this body heading: their normalized titles are
\* equal or one is part of the other.
EntryMatches(entry, heading) ==
    TitlesMatch(_normalize_title(entry.title), _normalize_title(heading.text))

\* The issues of this kind about the TOC entry with this title.
IssuesAbout(kinds, title) ==
    {k \in DOMAIN issues :
        issues[k].rule_id \in kinds /\ issues[k].error_message[2] = title}

\* C9: when the TOC has entries, every TOC entry without a matching body
\* heading (neither equal nor by substring, after normalization) yields
\* exactly one not-found issue, and a TOC entry that matches a body heading
\* of the same level after normalization yields no issue.
C9_TocEntriesResolved ==
    (StructureChecked("TOC_BODY_CONSISTENCY") /\ TocExists /\ TocEntries # <<>>) =>
        /\ Cardinality({k \in DOMAIN issues : issues[k].rule_id = "TOC_ENTRY_NOT_FOUND"})
             = Cardinality({e \in DOMAIN TocEntries :
                              \A h \in DOMAIN doc.headings :
                                  ~EntryMatches(TocEntries[e], doc.headings[h])})
        /\ \A e \in DOMAIN TocEntries :
              (\E h \in DOMAIN doc.headings :
                   /\ _normalize_title(TocEntries[e].title)
                        = _normalize_title(doc.headings[h].text)
                   /\ TocEntries[e].level = doc.headings[h].level)
              => IssuesAbout({"TOC_ENTRY_NOT_FOUND", "TOC_LEVEL_MISMATCH"},
                             TocEntries[e].title) = {}

\* C10: without a TOC check_toc_body_consistency returns the one "missing"
\* issue and nothing else, with a TOC without entries the one "empty" issue
\* and nothing else, whatever the body headings are.
C10_DegenerateTocShortCircuits ==
    StructureChecked("TOC_BODY_CONSISTENCY") =>
        /\ ~TocExists => Len(issues) = 1 /\ issues[1].rule_id = "TOC_MISSING"
        /\ (TocExists /\ TocEntries = <<>>) =>
              Len(issues) = 1 /\ issues[1].rule_id = "TOC_EMPTY"

\* C10 witness: a document with two level-1 headings and an empty TOC has
\* been checked, with the one "empty" issue.
C10_Witness ==
    /\ StructureChecked("TOC_BODY_CONSISTENCY")
    /\ TocExists
    /\ TocEntries = <<>>
    /\ Len(doc.headings) = 2
    /\ \A k \in DOMAIN doc.headings : doc.headings[k].level = 1
    /\ Len(issues) = 1
    /\ issues[1].rule_id = "TOC_EMPTY"

(***************************************************************************)
(* Spec: check_document_sync and check_document on rule lists of up to     *)
(* MaxRules rules of every category and checker kind, over documents with  *)
(* margins, body runs, headings and a table of contents.                   *)
(***************************************************************************)
PipelineDoc(top, layout, hs, toc) ==
    LET body == RunsDoc(layout, {0}, {})
    IN  [body EXCEPT
            !.page_settings = [margins |-> [top_mm |-> top, bottom_mm |-> 2540,
                                            left_mm |-> 3170, right_mm |-> 3170]],
            !.paragraphs = body.paragraphs \o
                [k \in DOMAIN hs |->
                    Paragraph(NumParagraphs + k - 1, hs[k][1], 2, k, k, <<GoodFont>>)],
            !.headings = [k \in DOMAIN hs |->
                             Heading(hs[k][2], hs[k][1], NumParagraphs + k - 1, <<GoodFont>>)],
            !.table_of_contents = toc]

PipelineDocs ==
    {PipelineDoc(top, layout, hs, toc) :
        top \in {2540, 3000},
        layout \in {<<>>, <<<<0, BadFont>>, <<0, BadFont>>, <<1, GoodFont>>>>,
                    <<<<0, BadFont>>, <<1, BadFont>>>>},
        hs \in {<<>>, <<<<<<"A">>, 1>>, <<<<"B">>, 3>>>>,
                <<<<<<"1", ".", " ", "A">>, 1>>, <<<<"A", "B">>, 2>>>>},
        toc \in {[exists |-> FALSE, entries |-> <<>>],
                 [exists |-> TRUE, entries |-> <<TocEntry(<<"A">>, 1, 0)>>],
                 [exists |-> TRUE,
                  entries |-> <<TocEntry(<<"C">>, 1, 0), TocEntry(<<"A">>, 2, 1)>>]}}

PipelineRules ==
    {[id |-> "MARGIN_CHECK", name |-> "page_margins", category |-> "page",
      match |-> "document", condition |-> [top_mm |-> 2540, tolerance_mm |-> 200],
      checker |-> "deterministic", fix_action |-> "set_page_margin",
      fix_params |-> "margins"],
     [id |-> "FONT_CHECK", name |-> "body_font", category |-> "font", match |-> "run",
      condition |-> [chinese_font |-> <<"SimSun">>]],
     [id |-> "FONT_CHECK", name |-> "body_font_size", category |-> "font",
      match |-> "run", condition |-> [chinese_size_pt |-> 140], checker |-> "hybrid"],
     [id |-> "INDENT_CHECK", name |-> "first_line_indent", category |-> "paragraph",
      match |-> "paragraph", condition |-> [first_line_indent_chars |-> 20],
      checker |-> "ai"],
     [id |-> "NUMBERING", name |-> "heading_numbering", category |-> "heading",
      match |-> "section", condition |-> [number_style |-> "decimal"],
      checker |-> "custom"],
     StructureRule("TOC_BODY_CONSISTENCY", << >>),
     StructureRule("HEADING_HIERARCHY_CHECK", << >>),
     StructureRule("REQUIRED_SECTIONS_CHECK",
                   [required_sections |-> <<<<"A">>, <<"C">>, <<"zh1">>>>])}

Init ==
    \E d \in PipelineDocs, rs \in SeqsUpTo(PipelineRules, MaxRules),
       m \in {"sync", "async"} : Start(d, rs, m)

Next ==
    NextCheck

Spec ==
    Init /\ [][Next]_vars

\* The rule is one the rule loop runs in the mode of this check.
Runs(rule) ==
    IF mode = "sync" THEN ~("checker" \in DOMAIN rule /\ rule.checker = "ai")
    ELSE "checker" \in DOMAIN rule => rule.checker \in {"deterministic", "hybrid"}

\* The rule is violated by at least one target: a target does not match
\* its condition or, for a structure rule, the structure check finds
\* something.
Violated(rule) ==
    IF rule.category = "structure" THEN StructureIssues(rule, doc) # <<>>
    ELSE ViolatingTargets(rule, doc) # <<>>

\* C3 (as stated): the reported issue count, total_issues, is the number of
\* distinct rules of the rule set that are violated by at least one target.
C3_CountIsViolatedRules ==
    pc = "done" =>
        Len(merged) = Cardinality({rules[k] : k \in {n \in DOMAIN rules :
                                       Runs(rules[n]) /\ Violated(rules[n])}})

\* The rule ids of the findings: the id of every violated rule that is not
\* a structure rule, and the ids that the findings of the structure rules
\* carry (TOC_ENTRY_NOT_FOUND, HEADING_LEVEL_JUMP, ...).
FindingIds ==
    {rules[k].id : k \in {n \in DOMAIN rules :
         Runs(rules[n]) /\ rules[n].category # "structure" /\ Violated(rules[n])}}
    \cup
    UNION {{StructureIssues(rules[k], doc)[j].rule_id :
               j \in DOMAIN StructureIssues(rules[k], doc)} :
           k \in {n \in DOMAIN rules :
                     Runs(rules[n]) /\ rules[n].category = "structure"}}

\* C3 (amended): the reported issue count is the number of distinct rule
\* ids of the findings, not the raw violation count: one issue for every
\* rule id of a violated non-structure rule and one for every kind of
\* finding of a structure rule.
C3_CountIsDistinctFindingIds ==
    pc = "done" =>
        /\ Len(merged) = Cardinality(FindingIds)
        /\ {merged[k].rule_id : k \in DOMAIN merged} = FindingIds

\* C3 witness: a font rule violated in two paragraphs and a TOC rule with
\* two kinds of findings have been reported as three issues.
C3_Witness ==
    /\ pc = "done"
    /\ Len(rules) = 2
    /\ rules[1].category = "font"
    /\ rules[2].id = "TOC_BODY_CONSISTENCY"
    /\ Len(issues) = 4
    /\ Len(merged) = 3
    /\ Len(merged[1].raw_locations) = 2

(***************************************************************************)
(* The revised document: XmlReviser (backend/app/utils/xml_reviser.py).    *)
(*                                                                         *)
(* A .docx file is a record: `sections` (margins in EMU and the            *)
(* w:sectPrChange markers of each w:sectPr), `paragraphs` (style name,     *)
(* alignment, the attributes of w:ind, the w:pPrChange markers and the     *)
(* child nodes: a run w:r, or a run wrapped in w:ins or w:del) and         *)
(* `settings` (the flags of settings.xml).  A revision marker is a record  *)
(* with the old state it holds.  A fix parameter that is null in the JSON  *)
(* of the rule is Null where a number is expected and None where a font    *)
(* name is expected.  An operation of the reviser yields the document or   *)
(* paragraph as it is when the operation returns or raises, and `raised`.  *)
(***************************************************************************)
Null ==
    -1

Put(d, k, v) ==
    [x \in DOMAIN d \cup {k} |-> IF x = k THEN v ELSE d[x]]

Without(d, k) ==
    [x \in DOMAIN d \ {k} |-> d[x]]

RevisionViewFlags ==
    {"revisionView.ins", "revisionView.del", "revisionView.formatting",
     "revisionView.markup"}

\* A w:pPrChange / w:rPrChange with an empty old w:pPr / w:rPr, a
\* w:sectPrChange without any child.
ChangeMarker ==
    [author |-> "DocAI", old |-> << >>]

mark_paragraph_property_change(paragraph) ==
    [paragraph EXCEPT !.pPrChange = Append(@, ChangeMarker)]

EnableTrackRevisionsMarkingParagraphs(d) ==
    [d EXCEPT !.settings = @ \cup {"trackRevisions"} \cup RevisionViewFlags,
              !.paragraphs = [k \in DOMAIN @ |-> mark_paragraph_property_change(@[k])]]

enable_track_revisions(d) ==
    [d EXCEPT !.settings = @ \cup {"trackRevisions"} \cup RevisionViewFlags]

\* docx.shared.Mm: hundredths of a millimetre to EMU (1mm = 36000 EMU).
Mm(mm) ==
    mm * 360

\* The assignments to one section up to the first one that raises.
MarginsUntilNull(section, top_mm, bottom_mm, left_mm, right_mm) ==
    LET s1 == IF top_mm = Null THEN section
              ELSE [section EXCEPT !.top_margin = Mm(top_mm)]
        s2 == IF top_mm = Null \/ bottom_mm = Null THEN s1
              ELSE [s1 EXCEPT !.bottom_margin = Mm(bottom_mm)]
        s3 == IF Null \in {top_mm, bottom_mm, left_mm} THEN s2
              ELSE [s2 EXCEPT !.left_margin = Mm(left_mm)]
    IN  s3

SetPageMarginMarkingNothing(d, top_mm, bottom_mm, left_mm, right_mm) ==
    [doc |-> [d EXCEPT !.sections =
                 [k \in DOMAIN d.sections |->
                     [d.sections[k] EXCEPT
                         !.top_margin = Mm(top_mm), !.bottom_margin = Mm(bottom_mm),
                         !.left_margin = Mm(left_mm), !.right_margin = Mm(right_mm)]]],
     raised |-> FALSE]

set_page_margin(d, top_mm, bottom_mm, left_mm, right_mm) ==
    IF d.sections = <<>> THEN [doc |-> d, raised |-> FALSE]
    ELSE IF Null \in {top_mm, bottom_mm, left_mm, right_mm}
    THEN [doc |-> [d EXCEPT !.sections[1] =
                      MarginsUntilNull(@, top_mm, bottom_mm, left_mm, right_mm)],
          raised |-> TRUE]
    ELSE [doc |-> [d EXCEPT !.sections =
                      [k \in DOMAIN d.sections |->
                          [d.sections[k] EXCEPT
                              !.top_margin = Mm(top_mm),
                              !.bottom_margin = Mm(bottom_mm),
                              !.left_margin = Mm(left_mm),
                              !.right_margin = Mm(right_mm),
                              !.sectPrChange = Append(@, ChangeMarker)]]],
          raised |-> FALSE]

\* first_line_chars is in tenths of a character, w:firstLineChars in
\* hundredths.
set_paragraph_indent(paragraph, first_line_chars) ==
    LET cleared == [paragraph EXCEPT !.ind = Without(@, "firstLine")]
    IN  IF first_line_chars = Null
        THEN [paragraph |-> cleared, raised |-> TRUE]
        ELSE [paragraph |->
                  mark_paragraph_property_change(
                      [cleared EXCEPT
                          !.ind = Put(@, "firstLineChars", first_line_chars * 10)]),
              raised |-> FALSE]

\* paragraph.runs: the w:r children of the paragraph, not the runs inside
\* w:ins or w:del.
RunPositions(paragraph) ==
    {k \in DOMAIN paragraph.nodes : paragraph.nodes[k].kind = "r"}

\* size_pt is in tenths of a point, w:sz and w:szCs in half-points.
StyledRun(run, font_name, size_pt, bold) ==
    [run EXCEPT
        !.rPr = Put(Put(Put(Put(Put(@, "name", font_name), "eastAsia", font_name),
                            "sz", (size_pt * 2) \div 10),
                        "szCs", (size_pt * 2) \div 10),
                    "bold", bold),
        !.rPrChange = Append(@, ChangeMarker)]

set_heading_style(paragraph, font_name, size_pt, alignment, bold) ==
    LET aligned == IF alignment \in {"center", "left"}
                   THEN [paragraph EXCEPT !.alignment = alignment]
                   ELSE paragraph
        runs == RunPositions(paragraph)
        first == CHOOSE k \in runs : \A j \in runs : k <= j
    IN  IF runs = {}
        THEN [paragraph |-> mark_paragraph_property_change(aligned),
              raised |-> FALSE]
        ELSE IF font_name = None
        THEN [paragraph |-> [aligned EXCEPT !.nodes[first].rPr = Without(@, "name")],
              raised |-> TRUE]
        ELSE IF size_pt = Null
        THEN [paragraph |->
                  [aligned EXCEPT
                      !.nodes[first].rPr =
                          Put(Put(@, "name", font_name), "eastAsia", font_name)],
              raised |-> TRUE]
        ELSE [paragraph |->
                  mark_paragraph_property_change(
                      [aligned EXCEPT !.nodes =
                          [k \in DOMAIN aligned.nodes |->
                              IF k \in runs
                              THEN StyledRun(aligned.nodes[k], font_name, size_pt, bold)
                              ELSE aligned.nodes[k]]]),
              raised |-> FALSE]

\* str.replace: every occurrence of `old`, from the left, not overlapping.
RECURSIVE Replace(_, _, _)
Replace(text, old, new) ==
    IF Len(text) < Len(old) \/ old = <<>> THEN text
    ELSE IF SubSeq(text, 1, Len(old)) = old
    THEN new \o Replace(SubSeq(text, Len(old) + 1, Len(text)), old, new)
    ELSE <<Head(text)>> \o Replace(Tail(text), old, new)

_wrap_as_deleted(run) ==
    [run EXCEPT !.kind = "del"]

_wrap_as_inserted(run) ==
    [run EXCEPT !.kind = "ins"]

\* replace_text_in_run on the run at position k of the paragraph.
ReplaceTextInPlace(paragraph, k, old_text, new_text) ==
    [paragraph EXCEPT !.nodes[k].text = Replace(@, old_text, new_text)]

replace_text_in_run(paragraph, k, old_text, new_text) ==
    LET run == paragraph.nodes[k]
        n == Len(paragraph.nodes)
    IN  IF ~IsSubstring(old_text, run.text) THEN paragraph
        ELSE [paragraph EXCEPT !.nodes =
                 SubSeq(paragraph.nodes, 1, k - 1)
                 \o <<_wrap_as_deleted(run),
                      _wrap_as_inserted(
                          [run EXCEPT !.text = Replace(@, old_text, new_text)])>>
                 \o SubSeq(paragraph.nodes, k + 1, n)]

\* The runs of the paragraph that hold the text, in document order.
RunsHolding(paragraph, text) ==
    {k \in RunPositions(paragraph) : IsSubstring(text, paragraph.nodes[k].text)}

\* for run in paragraph.runs: if text in run.text: replace; break
ReplaceInFirstRun(paragraph, old_text, new_text) ==
    LET holding == RunsHolding(paragraph, old_text)
    IN  IF holding = {} THEN paragraph
        ELSE replace_text_in_run(paragraph,
                                 CHOOSE k \in holding : \A j \in holding : k <= j,
                                 old_text, new_text)

\* replace_text_in_paragraph searches the runs when the text of the
\* paragraph holds old_text; the run loop of _apply_fix that follows a
\* failure finds no run either.
replace_text_in_paragraph(paragraph, old_text, new_text) ==
    ReplaceInFirstRun(paragraph, old_text, new_text)
(***************************************************************************)
(* RevisionEngine (backend/app/services/revision_engine.py).               *)
(*                                                                         *)
(* The target of a fix is the position of a paragraph in doc.paragraphs    *)
(* (index + 1) or NoTarget for None.  The name of a paragraph style is the *)
(* sequence of its words.                                                  *)
(***************************************************************************)
NoTarget ==
    0

\* int(style_name.split()[-1]) of a heading style, 1 when it raises or the
\* style is not a heading style.
StyleLevel(style_name) ==
    IF style_name # <<>> /\ style_name[1] = "Heading"
    THEN CASE style_name[Len(style_name)] = "1" -> 1
           [] style_name[Len(style_name)] = "2" -> 2
           [] style_name[Len(style_name)] = "3" -> 3
           [] OTHER -> 1
    ELSE 1

InParagraph(d, target, result) ==
    [doc |-> [d EXCEPT !.paragraphs[target] = result.paragraph],
     raised |-> result.raised]

ApplyFixUnknownAsMargin(d, issue, target) ==
    LET params == Get(issue, "fix_params", << >>)
    IN  IF Get(issue, "fix_action", None) \in {None, ""}
        THEN [doc |-> d, raised |-> FALSE]
        ELSE set_page_margin(d, Get(params, "top_mm", 2540),
                             Get(params, "bottom_mm", 2540),
                             Get(params, "left_mm", 3180),
                             Get(params, "right_mm", 3180))

_apply_fix(d, issue, target) ==
    LET action == Get(issue, "fix_action", None)
        params == Get(issue, "fix_params", << >>)
        unchanged == [doc |-> d, raised |-> FALSE]
    IN  IF action \in {None, ""} THEN unchanged
        ELSE IF action = "set_page_margin"
        THEN set_page_margin(d, Get(params, "top_mm", 2540),
                             Get(params, "bottom_mm", 2540),
                             Get(params, "left_mm", 3180),
                             Get(params, "right_mm", 3180))
        ELSE IF target = NoTarget THEN unchanged
        ELSE LET paragraph == d.paragraphs[target]
             IN  CASE action = "set_paragraph_indent" ->
                        InParagraph(d, target,
                            set_paragraph_indent(paragraph,
                                Get(params, "first_line_indent_chars", 20)))
                   [] action = "set_heading_style" ->
                        LET level_key == LevelKey([level |-> StyleLevel(paragraph.style)])
                        IN  IF level_key \in DOMAIN params
                            THEN InParagraph(d, target,
                                     set_heading_style(paragraph,
                                         Get(params[level_key], "font", "SimHei"),
                                         Get(params[level_key], "size_pt", 140),
                                         Get(params[level_key], "alignment", "left"),
                                         Get(params[level_key], "bold", TRUE)))
                            ELSE unchanged
                   [] action = "set_run_style" ->
                        InParagraph(d, target,
                            set_heading_style(paragraph,
                                Get(params, "chinese_font", "zh:SongTi"),
                                Get(params, "size_pt", 120), None, FALSE))
                   [] action = "replace_text" ->
                        IF Get(params, "original", <<>>) # <<>>
                           /\ Get(params, "correction", <<>>) # <<>>
                        THEN InParagraph(d, target,
                                 [paragraph |->
                                      replace_text_in_paragraph(paragraph,
                                          params["original"], params["correction"]),
                                  raised |-> FALSE])
                        ELSE unchanged
                   [] action = "replace_ref" ->
                        IF Get(params, "original_ref", <<>>) # <<>>
                           /\ Get(params, "suggested_ref", <<>>) # <<>>
                        THEN InParagraph(d, target,
                                 [paragraph |->
                                      ReplaceInFirstRun(paragraph,
                                          params["original_ref"],
                                          params["suggested_ref"]),
                                  raised |-> FALSE])
                        ELSE unchanged
                   [] OTHER -> unchanged

\* The paragraph a location of type paragraph or heading refers to, or
\* NoTarget.
TargetOf(d, loc) ==
    IF Get(loc, "type", None) \in {"paragraph", "heading"}
    THEN LET key == IF "index" \in DOMAIN loc THEN "index" ELSE "paragraph_index"
         IN  IF key \in DOMAIN loc /\ 0 <= loc[key] /\ loc[key] < Len(d.paragraphs)
             THEN loc[key] + 1
             ELSE NoTarget
    ELSE NoTarget

\* The location gets a call of _apply_fix.
Resolves(d, loc) ==
    DOMAIN loc # {} /\ (Get(loc, "type", None) = "document" \/ TargetOf(d, loc) # NoTarget)

\* for loc in locations: the document after the fixes of the locations
\* from position k on, with the numbers of calls of _apply_fix and of
\* calls that raised.
RECURSIVE ApplyLocations(_, _, _, _)
ApplyLocations(d, issue, locations, k) ==
    IF k > Len(locations) THEN [doc |-> d, applied_count |-> 0, raised |-> 0]
    ELSE IF Resolves(d, locations[k])
    THEN LET fix == _apply_fix(d, issue, TargetOf(d, locations[k]))
             rest == ApplyLocations(fix.doc, issue, locations, k + 1)
         IN  [rest EXCEPT !.applied_count = @ + 1,
                          !.raised = @ + (IF fix.raised THEN 1 ELSE 0)]
    ELSE ApplyLocations(d, issue, locations, k + 1)

\* The body of `for issue in issues`.
ApplyIssueFixes(d, issue) ==
    LET raw == Get(issue, "raw_locations", <<>>)
        single_location == Get(issue, "location", << >>)
    IN  IF raw # <<>> THEN ApplyLocations(d, issue, raw, 1)
        ELSE IF Get(single_location, "type", None) = "merged"
        THEN IF Get(issue, "category", None) = "page"
             THEN LET fix == _apply_fix(d, issue, NoTarget)
                  IN  [doc |-> fix.doc, applied_count |-> 1,
                       raised |-> IF fix.raised THEN 1 ELSE 0]
             ELSE [doc |-> d, applied_count |-> 0, raised |-> 0]
        ELSE ApplyLocations(d, issue, <<single_location>>, 1)

\* f"{name}_revised_{uuid.uuid4().hex[:8]}{ext}" in the output directory.  A
\* path is the sequence of the parts of the file name, the extension last.
RevisedPath(original_file_path, suffix) ==
    SubSeq(original_file_path, 1, Len(original_file_path) - 1)
        \o <<"_revised_", suffix, original_file_path[Len(original_file_path)]>>

\* The document object before Document(revised_path) has been called.
NotLoaded ==
    [readable |-> FALSE, settings |-> {}, sections |-> <<>>, paragraphs |-> <<>>]

\* Lines 34-39: the name of the revised file is drawn and the original is
\* copied to it.
CopyOriginal(i, suffix) ==
    /\ revs[i].pc = "copy"
    /\ LET revised_path == RevisedPath(revs[i].original_file_path, suffix)
       IN  /\ fs' = Put(fs, revised_path, fs[revs[i].original_file_path])
           /\ revs' = [revs EXCEPT ![i].revised_path = revised_path,
                                   ![i].pc = "load"]
    /\ UNCHANGED <<doc, rules, mode, pc, ruleIdx, issues, merged, remerged,
                   user, reqs, checks, orders>>

\* Lines 41-57: the copy is loaded (a file that is not a readable .docx
\* raises) and track changes are enabled.
LoadCopy(i) ==
    /\ revs[i].pc = "load"
    /\ revs' = IF fs[revs[i].revised_path].readable
               THEN [revs EXCEPT
                        ![i].doc = enable_track_revisions(fs[revs[i].revised_path]),
                        ![i].pc = IF revs[i].issues = <<>> THEN "save" ELSE "issues"]
               ELSE [revs EXCEPT ![i].pc = "raised"]
    /\ UNCHANGED <<doc, rules, mode, pc, ruleIdx, issues, merged, remerged,
                   fs, user, reqs, checks, orders>>

\* Lines 59-124: one iteration of `for issue in issues`.
ApplyIssueSavingEachTime(i) ==
    /\ revs[i].pc = "issues"
    /\ LET fixes == ApplyIssueFixes(revs[i].doc, revs[i].issues[revs[i].idx])
       IN  /\ revs' = [revs EXCEPT
                          ![i].doc = fixes.doc,
                          ![i].log = Append(@, [applied_count |-> fixes.applied_count,
                                                raised |-> fixes.raised]),
                          ![i].idx = @ + 1,
                          ![i].pc = IF revs[i].idx = Len(revs[i].issues)
                                    THEN "save" ELSE "issues"]
           /\ fs' = Put(fs, revs[i].revised_path, fixes.doc)
    /\ UNCHANGED <<doc, rules, mode, pc, ruleIdx, issues, merged, remerged,
                   user, reqs, checks, orders>>

ApplyIssue(i) ==
    /\ revs[i].pc = "issues"
    /\ LET fixes == ApplyIssueFixes(revs[i].doc, revs[i].issues[revs[i].idx])
       IN  revs' = [revs EXCEPT
                       ![i].doc = fixes.doc,
                       ![i].log = Append(@, [applied_count |-> fixes.applied_count,
                                             raised |-> fixes.raised]),
                       ![i].idx = @ + 1,
                       ![i].pc = IF revs[i].idx = Len(revs[i].issues)
                                 THEN "save" ELSE "issues"]
    /\ UNCHANGED <<doc, rules, mode, pc, ruleIdx, issues, merged, remerged,
                   fs, user, reqs, checks, orders>>

\* Lines 126-128: doc.save(revised_path); the path is returned.
SaveRevised(i) ==
    /\ revs[i].pc = "save"
    /\ fs' = Put(fs, revs[i].revised_path, revs[i].doc)
    /\ revs' = [revs EXCEPT ![i].pc = "returned"]
    /\ UNCHANGED <<doc, rules, mode, pc, ruleIdx, issues, merged, remerged,
                   user, reqs, checks, orders>>

\* generate_revised_document(issues) of a RevisionEngine on the file.
Invocation(original_file_path, issue_list) ==
    [pc |-> "copy", original_file_path |-> original_file_path,
     issues |-> issue_list, revised_path |-> <<>>, doc |-> NotLoaded, idx |-> 1,
     log |-> <<>>]

\* The rule engine is not running.
NoCheck ==
    /\ doc = EmptyDoc /\ rules = <<>> /\ mode = "sync" /\ pc = "done"
    /\ ruleIdx = 1 /\ issues = <<>> /\ merged = <<>> /\ remerged = <<>>

\* The revised document of an invocation that runs alone on a readable
\* original.
RECURSIVE RevisedFrom(_, _, _)
RevisedFrom(d, issue_list, k) ==
    IF k > Len(issue_list) THEN d
    ELSE RevisedFrom(ApplyIssueFixes(d, issue_list[k]).doc, issue_list, k + 1)

RevisedDocument(original, issue_list) ==
    RevisedFrom(enable_track_revisions(original), issue_list, 1)

(***************************************************************************)
(* Revision of one document: generate_revised_document on a source file    *)
(* and an issue list.                                                      *)
(***************************************************************************)
MaxFixIssues ==
    2

RunNode(text, rPr) ==
    [kind |-> "r", text |-> text, rPr |-> rPr, rPrChange |-> <<>>]

DocxParagraph(style, alignment, ind, nodes) ==
    [style |-> style, alignment |-> alignment, ind |-> ind, pPrChange |-> <<>>,
     nodes |-> nodes]

DocxSection(top_mm, bottom_mm, left_mm, right_mm) ==
    [top_margin |-> Mm(top_mm), bottom_margin |-> Mm(bottom_mm),
     left_margin |-> Mm(left_mm), right_margin |-> Mm(right_mm),
     sectPrChange |-> <<>>]

\* A heading, a paragraph of two runs with a first-line indent whose first
\* run cites [1] twice, a paragraph whose only run is the citation, and an
\* empty paragraph.
SampleParagraphs ==
    <<DocxParagraph(<<"Heading", "1">>, "center", << >>,
          <<RunNode(<<"A">>, [name |-> "Arial", sz |-> 32, bold |-> TRUE])>>),
      DocxParagraph(<<"Normal">>, None, [firstLine |-> 420],
          <<RunNode(<<"A", "[", "1", "]", "B", "[", "1", "]">>, [name |-> "Arial"]),
            RunNode(<<"C">>, << >>)>>),
      DocxParagraph(<<"Normal">>, None, << >>,
          <<RunNode(<<"[", "1", "]">>, << >>)>>),
      DocxParagraph(<<"Normal">>, None, << >>, <<>>)>>

SampleDocx(sections) ==
    [readable |-> TRUE, settings |-> {}, sections |-> sections,
     paragraphs |-> SampleParagraphs]

\* A file that python-docx cannot open.
UnreadableFile ==
    [readable |-> FALSE, settings |-> {}, sections |-> <<>>, paragraphs |-> <<>>]

OriginalFiles ==
    {SampleDocx(<<DocxSection(2000, 2000, 2500, 2500)>>),
     SampleDocx(<<DocxSection(2540, 2540, 3180, 3180),
                  DocxSection(2000, 2540, 3180, 3180)>>),
     UnreadableFile}

DocumentLocation ==
    [type |-> "document", description |-> "document"]

ParagraphLocation(index) ==
    [type |-> "paragraph", index |-> index]

MarginParams ==
    [top_mm |-> 2540, bottom_mm |-> 2540, left_mm |-> 3170, right_mm |-> 3170]

FixIssue(rule_id, category, fix_action, fix_params, locations) ==
    [rule_id |-> rule_id, category |-> category, fix_action |-> fix_action,
     fix_params |-> fix_params, location |-> locations[1],
     raw_locations |-> locations]

\* An issue in the old format, without raw_locations.
SingleLocationIssue(rule_id, category, fix_action, fix_params, location) ==
    [rule_id |-> rule_id, category |-> category, fix_action |-> fix_action,
     fix_params |-> fix_params, location |-> location]

FixIssues ==
    {FixIssue("MARGIN_CHECK", "page", "set_page_margin", MarginParams,
              <<DocumentLocation>>),
     FixIssue("MARGIN_CHECK", "page", "set_page_margin", MarginParams,
              <<DocumentLocation, DocumentLocation>>),
     SingleLocationIssue("MARGIN_CHECK", "page", "set_page_margin", MarginParams,
                         [type |-> "merged", count |-> 2]),
     FixIssue("MARGIN_CHECK", "page", "set_page_margin",
              [top_mm |-> 3000, bottom_mm |-> Null], <<DocumentLocation>>),
     SingleLocationIssue("INDENT_CHECK", "paragraph", "set_paragraph_indent",
                         [first_line_indent_chars |-> 20],
                         [type |-> "merged", count |-> 2]),
     SingleLocationIssue("BAD_FIX", "paragraph", "nonexistent_action", << >>,
                         ParagraphLocation(1)),
     SingleLocationIssue("TEST", "paragraph", "set_paragraph_indent",
                         [first_line_indent_chars |-> 20], ParagraphLocation(999)),
     FixIssue("INDENT_CHECK", "paragraph", "set_paragraph_indent",
              [first_line_indent_chars |-> 20],
              <<ParagraphLocation(1), ParagraphLocation(999)>>),
     FixIssue("INDENT_CHECK", "paragraph", "set_paragraph_indent",
              [first_line_indent_chars |-> Null], <<ParagraphLocation(1)>>),
     FixIssue("FONT_CHECK", "font", "set_run_style",
              [chinese_font |-> "SimSun", size_pt |-> 140],
              <<ParagraphLocation(1), ParagraphLocation(2), ParagraphLocation(3)>>),
     FixIssue("FONT_CHECK", "font", "set_run_style",
              [chinese_font |-> "SimSun", size_pt |-> Null],
              <<ParagraphLocation(1)>>),
     FixIssue("HEADING_STYLES", "heading", "set_heading_style",
              [level1 |-> [font |-> "SimHei", size_pt |-> 160,
                           alignment |-> "left", bold |-> TRUE]],
              <<[type |-> "heading", level |-> 1, paragraph_index |-> 0]>>),
     FixIssue("AI_CROSS_REF", "content", "replace_ref",
              [original_ref |-> <<"[", "1", "]">>, suggested_ref |-> <<"[", "2", "]">>],
              <<ParagraphLocation(1)>>),
     FixIssue("AI_CROSS_REF", "content", "replace_ref",
              [original_ref |-> <<"[", "1", "]">>, suggested_ref |-> <<"[", "2", "]">>],
              <<ParagraphLocation(2)>>),
     FixIssue("AI_SPELL", "content", "replace_text",
              [original |-> <<"C">>, correction |-> <<"B">>],
              <<ParagraphLocation(1)>>),
     SingleLocationIssue("MANUAL_CHECK", "paragraph", None, << >>,
                         ParagraphLocation(1))}

OriginalPath ==
    <<"test", ".docx">>

\* uuid.uuid4().hex[:8]
Suffixes ==
    {"0a1b2c3d", "4e5f6a7b"}

InitRevise ==
    /\ NoCheck
    /\ NoSubmission
    /\ \E original \in OriginalFiles, issue_list \in SeqsUpTo(FixIssues, MaxFixIssues) :
          /\ fs = Put(<< >>, OriginalPath, original)
          /\ revs = <<Invocation(OriginalPath, issue_list)>>

NextRevise ==
    \/ \E i \in DOMAIN revs, suffix \in Suffixes : CopyOriginal(i, suffix)
    \/ \E i \in DOMAIN revs : LoadCopy(i)
    \/ \E i \in DOMAIN revs : ApplyIssue(i)
    \/ \E i \in DOMAIN revs : SaveRevised(i)

SpecRevise ==
    InitRevise /\ [][NextRevise]_vars

KnownActions ==
    {"set_page_margin", "set_paragraph_indent", "set_heading_style",
     "set_run_style", "set_page_size", "replace_text", "replace_ref"}

\* The locations the issue loop goes through.
LocationsOf(issue) ==
    IF Get(issue, "raw_locations", <<>>) # <<>> THEN issue.raw_locations
    ELSE <<Get(issue, "location", << >>)>>

\* The issue names a fix action that does not exist.
UnknownAction(issue) ==
    Get(issue, "fix_action", None) \notin KnownActions \cup {None, ""}

\* No location of the issue can be resolved: it is of a type that has no
\* target, or its paragraph does not exist.
Unresolvable(d, issue) ==
    /\ \A k \in DOMAIN LocationsOf(issue) : ~Resolves(d, LocationsOf(issue)[k])
    /\ ~(Get(issue, "raw_locations", <<>>) = <<>>
         /\ LocationsOf(issue)[1].type = "merged" /\ issue.category = "page")

\* A margin fix with good parameters and a location that resolves.
ValidMarginFix(d, issue) ==
    /\ Get(issue, "fix_action", None) = "set_page_margin"
    /\ ~Unresolvable(d, issue)
    /\ Null \notin {Get(issue.fix_params, k, 0) : k \in Range(MarginKeys)}

HasMargins(d, params) ==
    \A k \in DOMAIN d.sections :
        /\ d.sections[k].top_margin = Mm(params.top_mm)
        /\ d.sections[k].bottom_margin = Mm(params.bottom_mm)
        /\ d.sections[k].left_margin = Mm(params.left_mm)
        /\ d.sections[k].right_margin = Mm(params.right_mm)

\* C11: one issue never aborts the batch.  generate_revised_document
\* raises only when the copy cannot be loaded; when it returns, the revised
\* file exists, it is the file that the issue list without the issues of
\* unknown fix action or unresolvable location gives, and the margins of a
\* valid margin fix that no later issue touches are set in every section.
C11_BestEffort ==
    \A i \in DOMAIN revs :
        LET r == revs[i]
            original == fs[r.original_file_path]
        IN  /\ r.pc = "raised" => ~original.readable
            /\ r.pc = "returned" =>
                  /\ r.revised_path \in DOMAIN fs
                  /\ Len(r.log) = Len(r.issues)
                  /\ fs[r.revised_path] =
                        RevisedDocument(original,
                            SelectSeq(r.issues,
                                LAMBDA issue : ~UnknownAction(issue)
                                               /\ ~Unresolvable(original, issue)))
                  /\ \A k \in DOMAIN r.issues :
                        (/\ ValidMarginFix(original, r.issues[k])
                         /\ \A j \in (k + 1)..Len(r.issues) :
                               Get(r.issues[j], "fix_action", None) # "set_page_margin")
                        => HasMargins(fs[r.revised_path], r.issues[k].fix_params)

\* C11 witness: a list of an issue of unknown fix action and a valid margin
\* fix has been revised; the file has the margins and their markers.
C11_Witness ==
    \E i \in DOMAIN revs :
        /\ revs[i].pc = "returned"
        /\ Len(revs[i].issues) = 2
        /\ UnknownAction(revs[i].issues[1])
        /\ ValidMarginFix(fs[revs[i].original_file_path], revs[i].issues[2])
        /\ HasMargins(fs[revs[i].revised_path], MarginParams)
        /\ \A k \in DOMAIN fs[revs[i].revised_path].sections :
              Len(fs[revs[i].revised_path].sections[k].sectPrChange) = 1

\* The invocation has returned the path of the revised file.
Returned(i) ==
    revs[i].pc = "returned"

\* The issues of the list of invocation i that have a location at the
\* paragraph at position p.
IssuesAt(i, p) ==
    {k \in DOMAIN revs[i].issues :
        \E j \in DOMAIN LocationsOf(revs[i].issues[k]) :
            TargetOf(fs[revs[i].original_file_path],
                     LocationsOf(revs[i].issues[k])[j]) = p}

\* Every call of _apply_fix for issue k of invocation i raised.
FixFailed(i, k) ==
    revs[i].log[k].raised > 0 /\ revs[i].log[k].raised = revs[i].log[k].applied_count

\* C12 (as stated): a failing fix leaves its location unmodified.  When
\* every fix that was applied to a paragraph failed, the revised file holds
\* the paragraph exactly as the original does: no formatting change and no
\* revision marker.
C12_FailedFixLeavesLocationUnmodified ==
    \A i \in DOMAIN revs :
        Returned(i) =>
            \A p \in DOMAIN fs[revs[i].original_file_path].paragraphs :
                (IssuesAt(i, p) # {} /\ \A k \in IssuesAt(i, p) : FixFailed(i, k))
                => fs[revs[i].revised_path].paragraphs[p]
                      = fs[revs[i].original_file_path].paragraphs[p]

\* Rejecting the revision marks of a run: the properties go back to the
\* old state that the first w:rPrChange holds.
RejectRun(node) ==
    [kind |-> "r", text |-> node.text,
     rPr |-> IF node.rPrChange = <<>> THEN node.rPr ELSE node.rPrChange[1].old,
     rPrChange |-> <<>>]

\* Rejecting the revision marks of a paragraph: insertions are dropped,
\* deletions restored, and the paragraph properties go back to the old
\* state that the first w:pPrChange holds.
RejectParagraph(paragraph) ==
    LET kept == SelectSeq(paragraph.nodes, LAMBDA node : node.kind # "ins")
        old == IF paragraph.pPrChange = <<>>
               THEN [alignment |-> paragraph.alignment, ind |-> paragraph.ind]
               ELSE paragraph.pPrChange[1].old
    IN  [style |-> paragraph.style,
         pPr |-> old,
         nodes |-> [k \in DOMAIN kept |-> RejectRun(kept[k])]]

\* The text and formatting of a paragraph that has no revision marks.
PlainParagraph(paragraph) ==
    [style |-> paragraph.style,
     pPr |-> [alignment |-> paragraph.alignment, ind |-> paragraph.ind],
     nodes |-> paragraph.nodes]

SectionMargins(section) ==
    [k \in {"top_margin", "bottom_margin", "left_margin", "right_margin"} |->
        section[k]]

\* Rejecting the w:sectPrChange of a section.
RejectSection(section) ==
    IF section.sectPrChange = <<>> THEN SectionMargins(section)
    ELSE section.sectPrChange[1].old

SameFunction(f, g) ==
    DOMAIN f = DOMAIN g /\ \A x \in DOMAIN f : f[x] = g[x]

SameParagraph(a, b) ==
    /\ a.style = b.style
    /\ SameFunction(a.pPr, b.pPr)
    /\ Len(a.nodes) = Len(b.nodes)
    /\ \A k \in DOMAIN a.nodes :
          /\ a.nodes[k].text = b.nodes[k].text
          /\ SameFunction(a.nodes[k].rPr, b.nodes[k].rPr)

\* C13 (as stated): every applied fix is reversible.  Rejecting all
\* revision marks of the revised file gives back the text and formatting
\* of every paragraph, run and section of the original.
C13_RejectRestoresSource ==
    \A i \in DOMAIN revs :
        Returned(i) =>
            LET original == fs[revs[i].original_file_path]
                revised == fs[revs[i].revised_path]
            IN  /\ \A p \in DOMAIN original.paragraphs :
                      SameParagraph(RejectParagraph(revised.paragraphs[p]),
                                    PlainParagraph(original.paragraphs[p]))
                /\ \A s \in DOMAIN original.sections :
                      SameFunction(RejectSection(revised.sections[s]),
                                   SectionMargins(original.sections[s]))

\* The issue is a page issue with a margin fix.
PageFix(issue) ==
    Get(issue, "category", None) = "page"
    /\ Get(issue, "fix_action", None) = "set_page_margin"

\* C14 (as stated): a page issue applies its fix once, however many
\* locations it has.  When the list holds one issue with a margin fix,
\* valid and of category page, every section of the revised file has one
\* w:sectPrChange.
C14_PageFixAppliedOnce ==
    \A i \in DOMAIN revs :
        Returned(i) =>
            \A k \in DOMAIN revs[i].issues :
                (/\ PageFix(revs[i].issues[k])
                 /\ ValidMarginFix(fs[revs[i].original_file_path], revs[i].issues[k])
                 /\ \A j \in DOMAIN revs[i].issues \ {k} :
                       Get(revs[i].issues[j], "fix_action", None) # "set_page_margin")
                => \A s \in DOMAIN fs[revs[i].revised_path].sections :
                      Len(fs[revs[i].revised_path].sections[s].sectPrChange) = 1

\* The issues of the list of invocation i that replace a reference token.
RefIssues(i) ==
    {k \in DOMAIN revs[i].issues :
        Get(revs[i].issues[k], "fix_action", None) = "replace_ref"}

Tokens(i) ==
    {revs[i].issues[k].fix_params.original_ref : k \in RefIssues(i)}

Suggestions(i) ==
    {revs[i].issues[k].fix_params.suggested_ref : k \in RefIssues(i)}

\* The replacements of text that the issues of invocation i ask for.
Replacements(i) ==
    {<<revs[i].issues[k].fix_params.original_ref,
       revs[i].issues[k].fix_params.suggested_ref>> : k \in RefIssues(i)}
    \cup {<<revs[i].issues[k].fix_params.original,
            revs[i].issues[k].fix_params.correction>> :
             k \in {n \in DOMAIN revs[i].issues :
                       Get(revs[i].issues[n], "fix_action", None) = "replace_text"}}

\* The texts of the paragraph when the insertions are dropped and the
\* deletions restored.
RejectedTexts(paragraph) ==
    LET kept == SelectSeq(paragraph.nodes, LAMBDA node : node.kind # "ins")
    IN  [k \in DOMAIN kept |-> kept[k].text]

\* The list of invocation i has nothing but reference replacements.
OnlyRefIssues(i) ==
    RefIssues(i) = DOMAIN revs[i].issues

\* C15 (as stated): a reference replacement marks the matched token only.
\* In the file revised for a list of reference replacements every deletion
\* holds a reference token and nothing else, every insertion a suggested
\* reference and nothing else.
C15_OnlyTokenMarked ==
    \A i \in DOMAIN revs :
        (Returned(i) /\ OnlyRefIssues(i)) =>
            \A p \in DOMAIN fs[revs[i].revised_path].paragraphs :
                \A k \in DOMAIN fs[revs[i].revised_path].paragraphs[p].nodes :
                    LET node == fs[revs[i].revised_path].paragraphs[p].nodes[k]
                    IN  /\ node.kind = "del" => node.text \in Tokens(i)
                        /\ node.kind = "ins" => node.text \in Suggestions(i)

\* C15 (amended): a replacement is a deletion of the whole run that holds
\* the token, followed by an insertion of the text of the run with every
\* occurrence of the token replaced, both with the properties of the run;
\* no text is overwritten in place: dropping the insertions and restoring
\* the deletions gives the texts of the original.
C15_WholeRunDeletedAndInserted ==
    \A i \in DOMAIN revs :
        Returned(i) =>
            \A p \in DOMAIN fs[revs[i].revised_path].paragraphs :
                LET revised == fs[revs[i].revised_path].paragraphs[p]
                    original == fs[revs[i].original_file_path].paragraphs[p]
                IN  /\ RejectedTexts(revised)
                          = [k \in DOMAIN original.nodes |-> original.nodes[k].text]
                    /\ \A k \in DOMAIN revised.nodes :
                          /\ revised.nodes[k].kind = "ins" =>
                                k > 1 /\ revised.nodes[k - 1].kind = "del"
                          /\ revised.nodes[k].kind = "del" =>
                                /\ k < Len(revised.nodes)
                                /\ revised.nodes[k + 1].kind = "ins"
                                /\ revised.nodes[k + 1].rPr = revised.nodes[k].rPr
                                /\ \E r \in Replacements(i) :
                                      /\ IsSubstring(r[1], revised.nodes[k].text)
                                      /\ revised.nodes[k + 1].text
                                            = Replace(revised.nodes[k].text, r[1], r[2])

\* C15 witness: the reference [1] has been replaced in a run that holds it
\* twice between other text; the deletion holds the whole text of the run.
C15_Witness ==
    \E i \in DOMAIN revs :
        /\ Returned(i)
        /\ OnlyRefIssues(i)
        /\ LET nodes == fs[revs[i].revised_path].paragraphs[2].nodes
           IN  /\ Len(nodes) = 3
               /\ nodes[1].kind = "del"
               /\ nodes[1].text = <<"A", "[", "1", "]", "B", "[", "1", "]">>
               /\ nodes[2].kind = "ins"
               /\ nodes[2].text = <<"A", "[", "2", "]", "B", "[", "2", "]">>

\* C16: revising with an empty issue list changes nothing but the
\* revision settings: the paragraphs (texts, order, formatting) and the
\* sections of the revised file are those of the original.
C16_EmptyListNonDestructive ==
    \A i \in DOMAIN revs :
        (Returned(i) /\ revs[i].issues = <<>>) =>
            LET original == fs[revs[i].original_file_path]
                revised == fs[revs[i].revised_path]
            IN  /\ revised.paragraphs = original.paragraphs
                /\ revised.sections = original.sections
                /\ revised.settings = original.settings \cup {"trackRevisions"}
                                          \cup RevisionViewFlags

\* C16 witness: the sample document has been revised with no issue.
C16_Witness ==
    \E i \in DOMAIN revs :
        /\ Returned(i)
        /\ revs[i].issues = <<>>
        /\ Len(fs[revs[i].revised_path].paragraphs) = 4
        /\ Len(fs[revs[i].revised_path].sections) = 2
        /\ "trackRevisions" \in fs[revs[i].revised_path].settings

\* C17 (as stated): the output file is written once, after all issues.  At
\* every point of an invocation the output path is absent or holds the
\* final revised document.
C17_OutputAbsentOrFinal ==
    \A i \in DOMAIN revs :
        \/ revs[i].revised_path \notin DOMAIN fs
        \/ fs[revs[i].revised_path]
              = RevisedDocument(fs[revs[i].original_file_path], revs[i].issues)

\* C17 (amended): the output path is absent until the original is copied
\* to it, holds an exact copy of the original from then until the save,
\* also when the invocation raises, and holds the final revised document
\* once the invocation has returned; it is saved after all issues have been
\* attempted and never holds a partly revised document.
C17_OutputCopyThenFinal ==
    \A i \in DOMAIN revs :
        LET original == fs[revs[i].original_file_path]
        IN  /\ revs[i].pc = "copy" => revs[i].revised_path \notin DOMAIN fs
            /\ revs[i].pc \in {"load", "issues", "save", "raised"} =>
                  fs[revs[i].revised_path] = original
            /\ Returned(i) =>
                  /\ Len(revs[i].log) = Len(revs[i].issues)
                  /\ fs[revs[i].revised_path]
                        = RevisedDocument(original, revs[i].issues)

\* C17 witness: two issues have been applied to the loaded document and
\* the file at the output path is still the copy of the original.
C17_Witness ==
    \E i \in DOMAIN revs :
        /\ revs[i].pc = "save"
        /\ Len(revs[i].log) = 2
        /\ revs[i].log[1].applied_count > 0
        /\ revs[i].doc.paragraphs # fs[revs[i].original_file_path].paragraphs
        /\ fs[revs[i].revised_path] = fs[revs[i].original_file_path]

(***************************************************************************)
(* Concurrent invocations of generate_revised_document on one original:    *)
(* the steps of the invocations interleave, each draws its own suffix.     *)
(***************************************************************************)
NumInvocations ==
    2

ConcurrentIssueLists ==
    {<<>>,
     <<FixIssue("MARGIN_CHECK", "page", "set_page_margin", MarginParams,
                <<DocumentLocation>>)>>,
     <<FixIssue("INDENT_CHECK", "paragraph", "set_paragraph_indent",
                [first_line_indent_chars |-> 20], <<ParagraphLocation(1)>>)>>}

InitConcurrent ==
    /\ NoCheck
    /\ NoSubmission
    /\ \E original \in OriginalFiles :
          fs = Put(<< >>, OriginalPath, original)
    /\ \E lists \in [1..NumInvocations -> ConcurrentIssueLists] :
          revs = [i \in 1..NumInvocations |-> Invocation(OriginalPath, lists[i])]

SpecConcurrent ==
    InitConcurrent /\ [][NextRevise]_vars

\* The invocation has drawn its output path.
HasPath(i) ==
    revs[i].revised_path # <<>>

\* C18 (as stated): concurrent invocations on one original are safe
\* without locking.  In every interleaving the original is not modified,
\* no two invocations have the same output path, and the file at the
\* output path of an invocation that has returned is the file the
\* invocation produces when it runs alone.
C18_ConcurrentSafe ==
    /\ fs[OriginalPath] \in OriginalFiles
    /\ \A i, j \in DOMAIN revs :
          (i # j /\ HasPath(i) /\ HasPath(j)) =>
              revs[i].revised_path # revs[j].revised_path
    /\ \A i \in DOMAIN revs :
          Returned(i) =>
              fs[revs[i].revised_path]
                  = RevisedDocument(fs[OriginalPath], revs[i].issues)

\* The invocations that have drawn a path have drawn different suffixes.
SuffixesDiffer ==
    \A i, j \in DOMAIN revs :
        (i # j /\ HasPath(i) /\ HasPath(j)) =>
            revs[i].revised_path # revs[j].revised_path

\* C18, for the interleavings in which the suffixes differ: the original
\* is not modified and every invocation that has returned has the file it
\* produces alone.
C18_SafeWhenSuffixesDiffer ==
    SuffixesDiffer =>
        /\ fs[OriginalPath] \in OriginalFiles
        /\ \A i \in DOMAIN revs :
              Returned(i) =>
                  fs[revs[i].revised_path]
                      = RevisedDocument(fs[OriginalPath], revs[i].issues)

(***************************************************************************)
(* Check submission and the check counts of the user: submit_check         *)
(* (backend/app/api/checks.py) with reset_free_count_if_needed and         *)
(* check_count_available (backend/app/api/deps.py).                        *)
(*                                                                         *)
(* `user` is the row of the user, `checks` the check records, `reqs` the   *)
(* requests: a request is at "deduct" after the count has been found       *)
(* available, at "check" after the deduction has been committed and at     *)
(* "done" with the code of its response.  A date is the number of its      *)
(* month; `before` and `entry` of a request hold the counts of the user    *)
(* when the request came in and after the monthly reset.                   *)
(***************************************************************************)
MaxRequests ==
    3

FreeQuota ==
    3

Months ==
    {1, 2}

Counts(u) ==
    [k \in {"free_count", "basic_count", "full_count"} |-> u[k]]

reset_free_count_if_needed(u, today) ==
    IF IsNone(u, "last_reset_date") \/ u["last_reset_date"] # today
    THEN Put(Put(u, "free_count", FreeQuota), "last_reset_date", today)
    ELSE u

\* The cost type, or "forbidden" for the HTTPException with status 403.
CheckCountBasicFirst(u, check_type) ==
    IF check_type = "full"
    THEN IF u.full_count <= 0 THEN "forbidden" ELSE "full"
    ELSE IF u.basic_count > 0 THEN "basic"
    ELSE IF u.free_count > 0 THEN "free"
    ELSE "forbidden"

check_count_available(u, check_type) ==
    IF check_type = "full"
    THEN IF u.full_count <= 0 THEN "forbidden" ELSE "full"
    ELSE IF u.free_count > 0 THEN "free"
    ELSE IF u.basic_count > 0 THEN "basic"
    ELSE "forbidden"

\* Lines 175-204 of submit_check: the monthly reset is committed, the count
\* is checked, the uploaded file and the rule template are looked up.
BeginSubmit(check_type, today, file_found, template) ==
    /\ Len(reqs) < MaxRequests
    /\ \A r \in DOMAIN reqs : reqs[r].pc = "done"
    /\ (~IsNone(user, "last_reset_date") => user["last_reset_date"] <= today)
    /\ LET current_user == reset_free_count_if_needed(user, today)
           cost_type == check_count_available(current_user, check_type)
           code == IF cost_type = "forbidden" THEN 403
                   ELSE IF ~file_found THEN 2003
                   ELSE IF template = "unknown" THEN 3007
                   ELSE 0
       IN  /\ user' = current_user
           /\ reqs' = Append(reqs,
                  [check_type |-> check_type,
                   before |-> Counts(user), entry |-> Counts(current_user),
                   cost_type |-> cost_type, check |-> 0, code |-> code,
                   pc |-> IF code = 0 THEN "deduct" ELSE "done"])
    /\ UNCHANGED <<doc, rules, mode, pc, ruleIdx, issues, merged, remerged,
                   fs, revs, checks, orders>>

\* Lines 206-236: the check record is created, the count of the cost type
\* is decremented and both are committed.
DeductCount(r) ==
    /\ reqs[r].pc = "deduct"
    /\ checks' = Append(checks,
           [check_type |-> reqs[r].check_type, status |-> "completed",
            cost_type |-> reqs[r].cost_type, has_result |-> FALSE])
    /\ user' = CASE reqs[r].cost_type = "free" ->
                       [user EXCEPT !.free_count = @ - 1]
                 [] reqs[r].cost_type = "basic" ->
                       [user EXCEPT !.basic_count = @ - 1]
                 [] reqs[r].cost_type = "full" ->
                       [user EXCEPT !.full_count = @ - 1]
    /\ reqs' = [reqs EXCEPT ![r].check = Len(checks) + 1, ![r].pc = "check"]
    /\ UNCHANGED <<doc, rules, mode, pc, ruleIdx, issues, merged, remerged,
                   fs, revs, orders>>

\* Lines 238-354: the document is parsed and checked; a parse failure and
\* an exception mark the check as failed.
PerformCheck(r, parse_ok, check_ok) ==
    /\ reqs[r].pc = "check"
    /\ LET code == IF ~parse_ok THEN 3003
                   ELSE IF ~check_ok THEN 3004
                   ELSE 200
       IN  /\ checks' = [checks EXCEPT
                            ![reqs[r].check].status =
                                IF code = 200 THEN @ ELSE "failed",
                            ![reqs[r].check].has_result = (code = 200)]
           /\ reqs' = [reqs EXCEPT ![r].code = code, ![r].pc = "done"]
    /\ UNCHANGED <<doc, rules, mode, pc, ruleIdx, issues, merged, remerged,
                   fs, revs, user, orders>>

\* The users a check is submitted by: registered this month, last month
\* or never reset.
Users ==
    {[free_count |-> f, basic_count |-> b, full_count |-> c] :
        f \in 0..1, b \in 0..1, c \in 0..1}
    \cup {[free_count |-> f, basic_count |-> b, full_count |-> c,
           last_reset_date |-> m] :
             f \in {0, 1, FreeQuota}, b \in 0..1, c \in 0..1, m \in Months}

InitSubmit ==
    /\ NoCheck
    /\ NoRevision
    /\ user \in Users
    /\ reqs = <<>>
    /\ checks = <<>>
    /\ orders = <<>>

NextSubmit ==
    \/ \E check_type \in {"basic", "full"}, today \in Months,
          file_found \in BOOLEAN, template \in {"none", "known", "unknown"} :
            BeginSubmit(check_type, today, file_found, template)
    \/ \E r \in DOMAIN reqs : DeductCount(r)
    \/ \E r \in DOMAIN reqs, parse_ok \in BOOLEAN, check_ok \in BOOLEAN :
            PerformCheck(r, parse_ok, check_ok)

SpecSubmit ==
    InitSubmit /\ [][NextSubmit]_vars

\* The request is answered and no other request has changed the counts
\* since: it is the last request.
Answered(r) ==
    reqs[r].pc = "done" /\ r = Len(reqs)

\* The counts `after` are the counts `from` with the counter `key` one
\* lower.
OneLower(from, after, key) ==
    after = [from EXCEPT ![key] = @ - 1]

\* C19 (as stated): a successful submission decrements one counter by 1
\* and leaves the others as they were before the request: free_count for a
\* basic check when it was greater than 0, basic_count otherwise,
\* full_count for a full check; the cost type of the check record names
\* the counter.
C19_DeductsOneFromCountsBefore ==
    \A r \in DOMAIN reqs :
        (Answered(r) /\ reqs[r].code = 200) =>
            LET counter == IF reqs[r].check_type = "full" THEN "full"
                           ELSE IF reqs[r].before.free_count > 0 THEN "free"
                           ELSE "basic"
            IN  /\ OneLower(reqs[r].before, Counts(user),
                            CASE counter = "full" -> "full_count"
                              [] counter = "free" -> "free_count"
                              [] counter = "basic" -> "basic_count")
                /\ checks[reqs[r].check].cost_type = counter

\* C19 (amended): the same, counted from the counts after the monthly
\* reset of free_count that the request performs first.
C19_DeductsOneFromCountsAfterReset ==
    \A r \in DOMAIN reqs :
        (Answered(r) /\ reqs[r].code = 200) =>
            LET counter == IF reqs[r].check_type = "full" THEN "full"
                           ELSE IF reqs[r].entry.free_count > 0 THEN "free"
                           ELSE "basic"
            IN  /\ OneLower(reqs[r].entry, Counts(user),
                            CASE counter = "full" -> "full_count"
                              [] counter = "free" -> "free_count"
                              [] counter = "basic" -> "basic_count")
                /\ checks[reqs[r].check].cost_type = counter
                /\ \A k \in DOMAIN Counts(user) : Counts(user)[k] >= 0
                /\ reqs[r].entry.free_count =
                      IF reqs[r].entry = reqs[r].before
                      THEN reqs[r].before.free_count ELSE FreeQuota
                /\ reqs[r].entry.basic_count = reqs[r].before.basic_count
                /\ reqs[r].entry.full_count = reqs[r].before.full_count

\* C19 witness: a basic check of a user without free count whose last
\* reset was in another month has succeeded on the free count of the new
\* month, and a basic check has succeeded on the basic count.
C19_Witness ==
    /\ Len(reqs) = 2
    /\ Answered(2)
    /\ reqs[1].code = 200 /\ reqs[2].code = 200
    /\ reqs[1].check_type = "basic" /\ reqs[2].check_type = "basic"
    /\ reqs[1].before.free_count = 0
    /\ checks[1].cost_type = "basic"
    /\ reqs[2].before.free_count = 0
    /\ reqs[2].entry.free_count = FreeQuota
    /\ checks[2].cost_type = "free"
    /\ user.free_count = FreeQuota - 1

\* C20 (as stated, counted from the monthly reset on): a submission that
\* does not succeed deducts no count.  When the response is not the
\* success response, the counts are those the user had when the count was
\* checked.
C20_FailedSubmissionKeepsCounts ==
    \A r \in DOMAIN reqs :
        (Answered(r) /\ reqs[r].code # 200) => Counts(user) = reqs[r].entry

(***************************************************************************)
(* Concurrent check submissions of one user.  Every request has its own    *)
(* session: get_current_user loads the row of the user into it, and        *)
(* submit_check, which does not await before its commit of line 234,       *)
(* reads the loaded object and writes the attributes it has changed.       *)
(***************************************************************************)

\* The UPDATE of a commit: the columns whose value in `changed` is not the
\* one the session had `loaded`.
Flush(row, loaded, changed) ==
    [k \in DOMAIN row \cup DOMAIN changed |->
        IF k \in DOMAIN changed /\ (k \notin DOMAIN loaded \/ loaded[k] # changed[k])
        THEN changed[k]
        ELSE row[k]]

Decremented(u, cost_type) ==
    CASE cost_type = "free" -> [u EXCEPT !.free_count = @ - 1]
      [] cost_type = "basic" -> [u EXCEPT !.basic_count = @ - 1]
      [] cost_type = "full" -> [u EXCEPT !.full_count = @ - 1]

\* get_current_user: the dependency of the request, run before the handler.
GetCurrentUser(check_type) ==
    /\ Len(reqs) < MaxRequests
    /\ reqs' = Append(reqs,
           [check_type |-> check_type, session |-> user, cost_type |-> "none",
            check |-> 0, code |-> 0, pc |-> "loaded"])
    /\ UNCHANGED <<doc, rules, mode, pc, ruleIdx, issues, merged, remerged,
                   fs, revs, user, checks, orders>>

\* Lines 175-236 of submit_check on the loaded user.  The commit of the
\* monthly reset expires the loaded object, which is then read again.
SubmitInSession(r, today, file_found, template) ==
    /\ reqs[r].pc = "loaded"
    /\ (~IsNone(user, "last_reset_date") => user["last_reset_date"] <= today)
    /\ LET loaded == reqs[r].session
           reset == reset_free_count_if_needed(loaded, today)
           row == IF reset # loaded THEN Flush(user, loaded, reset) ELSE user
           current_user == IF reset # loaded THEN row ELSE loaded
           cost_type == check_count_available(current_user, reqs[r].check_type)
           code == IF cost_type = "forbidden" THEN 403
                   ELSE IF ~file_found THEN 2003
                   ELSE IF template = "unknown" THEN 3007
                   ELSE 0
       IN  IF code # 0
           THEN /\ user' = row
                /\ reqs' = [reqs EXCEPT ![r].code = code, ![r].pc = "done"]
                /\ UNCHANGED checks
           ELSE /\ user' = Flush(row, current_user,
                                 Decremented(current_user, cost_type))
                /\ checks' = Append(checks,
                       [check_type |-> reqs[r].check_type, status |-> "completed",
                        cost_type |-> cost_type, has_result |-> FALSE])
                /\ reqs' = [reqs EXCEPT ![r].cost_type = cost_type,
                                        ![r].check = Len(checks) + 1,
                                        ![r].pc = "check"]
    /\ UNCHANGED <<doc, rules, mode, pc, ruleIdx, issues, merged, remerged,
                   fs, revs, orders>>

NextSubmitConcurrent ==
    \/ \E check_type \in {"basic", "full"} : GetCurrentUser(check_type)
    \/ \E r \in DOMAIN reqs, today \in Months, file_found \in BOOLEAN,
          template \in {"none", "known", "unknown"} :
            SubmitInSession(r, today, file_found, template)
    \/ \E r \in DOMAIN reqs, parse_ok \in BOOLEAN, check_ok \in BOOLEAN :
            PerformCheck(r, parse_ok, check_ok)

SpecSubmitConcurrent ==
    InitSubmit /\ [][NextSubmitConcurrent]_vars

\* The checks of a type that have been accepted: their record exists and
\* their count has been deducted.
Accepted(check_type) ==
    Cardinality({c \in DOMAIN checks : checks[c].check_type = check_type})

\* The user has had no monthly reset since the first request loaded it.
NoResetSince(held) ==
    /\ ~IsNone(held, "last_reset_date")
    /\ user["last_reset_date"] = held["last_reset_date"]

\* C21: under every interleaving of the submissions of one user no counter
\* becomes negative and the accepted checks do not exceed the credits the
\* user held: the full checks its full_count, and, as long as no monthly
\* reset adds free credits, the basic checks its free_count and
\* basic_count together.
C21_ConcurrentDeductionCorrect ==
    /\ \A k \in DOMAIN Counts(user) : Counts(user)[k] >= 0
    /\ reqs # <<>> =>
          LET held == reqs[1].session
          IN  /\ Accepted("full") <= held.full_count
              /\ NoResetSince(held) =>
                    Accepted("basic") <= held.free_count + held.basic_count

(***************************************************************************)
(* Guest sessions: init_guest_session (backend/app/api/guest.py) creates   *)
(* the user of the session, who then submits checks like any other user.   *)
(***************************************************************************)
GuestBasicCount ==
    2

NoUser ==
    DOMAIN user = {}

\* The guest user is created without last_reset_date.
init_guest_session ==
    /\ NoUser
    /\ user' = [free_count |-> 0, basic_count |-> GuestBasicCount, full_count |-> 0]
    /\ UNCHANGED <<doc, rules, mode, pc, ruleIdx, issues, merged, remerged,
                   fs, revs, reqs, checks, orders>>

InitGuest ==
    /\ NoCheck
    /\ NoRevision
    /\ NoSubmission

NextGuest ==
    \/ init_guest_session
    \/ ~NoUser /\ NextSubmit

SpecGuest ==
    InitGuest /\ [][NextGuest]_vars

\* The checks of a type that have completed with a result.
Completed(check_type) ==
    Cardinality({c \in DOMAIN checks :
        /\ checks[c].check_type = check_type
        /\ checks[c].status = "completed"
        /\ checks[c].has_result})

\* C24: over any sequence of check submissions without a purchase a guest
\* account completes at most 2 basic checks and no full check.
C24_GuestQuota ==
    /\ Completed("basic") <= GuestBasicCount
    /\ Completed("full") = 0

(***************************************************************************)
(* The heading hierarchy of the parser: _parse_heading_structure and       *)
(* _build_heading_tree (backend/app/services/docx_parser.py).  A heading   *)
(* is [level, text, paragraph_index]; a node of the tree holds its         *)
(* children, a stack entry of the tree the path of its node.               *)
(***************************************************************************)
MaxParsedHeadings ==
    4

\* while stack and stack[-1]["level"] >= level: stack.pop()
RECURSIVE PopNotLower(_, _)
PopNotLower(stack, level) ==
    IF stack # <<>> /\ stack[Len(stack)].level >= level
    THEN PopNotLower(SubSeq(stack, 1, Len(stack) - 1), level)
    ELSE stack

\* The index of the first entry of the flat list with this text (0: none).
FirstWithText(flat, text) ==
    LET found == {i \in DOMAIN flat : flat[i].text = text}
    IN  IF found = {} THEN 0 ELSE CHOOSE i \in found : \A j \in found : i <= j

\* The flat list after the headings from k on; parent None is an absent
\* key.
RECURSIVE FlatFrom(_, _, _, _)
FlatFrom(headings, k, flat, stack) ==
    IF k > Len(headings) THEN flat
    ELSE LET heading == headings[k]
             level == Get(heading, "level", 1)
             text == Strip(heading.text)
             entry == [level |-> level, text |-> text,
                       paragraph_index |-> heading.paragraph_index,
                       children |-> <<>>]
             popped == PopNotLower(stack, level)
             parent == popped[Len(popped)].text
             parent_idx == FirstWithText(flat, parent)
         IN  FlatFrom(headings, k + 1,
                 IF popped = <<>> THEN Append(flat, entry)
                 ELSE Append(
                        IF parent_idx = 0 THEN flat
                        ELSE [flat EXCEPT ![parent_idx].children = Append(@, text)],
                        Put(entry, "parent", parent)),
                 Append(popped, [level |-> level, text |-> text]))

\* The children of the node at this path of the tree (the roots for the
\* empty path).
RECURSIVE ChildrenAt(_, _)
ChildrenAt(tree, path) ==
    IF path = <<>> THEN tree
    ELSE ChildrenAt(tree[Head(path)].children, Tail(path))

\* node["children"].append(child) on the node at this path.
RECURSIVE AppendAt(_, _, _)
AppendAt(tree, path, child) ==
    IF path = <<>> THEN Append(tree, child)
    ELSE [tree EXCEPT ![Head(path)].children = AppendAt(@, Tail(path), child)]

RECURSIVE TreeFrom(_, _, _, _)
TreeFrom(flat_headings, k, tree, stack) ==
    IF k > Len(flat_headings) THEN tree
    ELSE LET heading == flat_headings[k]
             node == [level |-> heading.level, text |-> heading.text,
                      paragraph_index |-> heading.paragraph_index,
                      children |-> <<>>]
             popped == PopNotLower(stack, heading.level)
             parent_path == IF popped = <<>> THEN <<>>
                            ELSE popped[Len(popped)].path
             path == Append(parent_path, Len(ChildrenAt(tree, parent_path)) + 1)
         IN  TreeFrom(flat_headings, k + 1, AppendAt(tree, parent_path, node),
                      Append(popped, [level |-> heading.level, path |-> path]))

_build_heading_tree(flat_headings) ==
    TreeFrom(flat_headings, 1, <<>>, <<>>)

_parse_heading_structure(headings) ==
    LET flat == FlatFrom(headings, 1, <<>>, <<>>)
    IN  [tree |-> _build_heading_tree(flat), flat |-> flat]

\* The parser builds the heading structure of the parsed headings.
ParseHeadingStructure ==
    /\ pc = "parse"
    /\ doc' = Put(doc, "heading_structure", _parse_heading_structure(doc.headings))
    /\ pc' = "parsed"
    /\ UNCHANGED <<rules, mode, ruleIdx, issues, merged, remerged,
                   fs, revs, user, reqs, checks, orders>>

\* Headings of levels 1 to 3 in successive paragraphs, two of which may
\* have the same text.
ParsedHeadings ==
    {[k \in DOMAIN hs |-> [level |-> hs[k][1], text |-> hs[k][2],
                           paragraph_index |-> k - 1]] :
        hs \in SeqsUpTo((1..3) \X {<<"A">>, <<"B">>}, MaxParsedHeadings)}

InitHeadingStructure ==
    /\ \E hs \in ParsedHeadings : doc = [EmptyDoc EXCEPT !.headings = hs]
    /\ rules = <<>> /\ mode = "sync" /\ ruleIdx = 1
    /\ issues = <<>> /\ merged = <<>> /\ remerged = <<>>
    /\ pc = "parse"
    /\ NoRevision
    /\ NoSubmission

SpecHeadingStructure ==
    InitHeadingStructure /\ [][ParseHeadingStructure]_vars

\* The index of the nearest preceding heading with a strictly smaller level
\* (0: none).
NearestSmaller(headings, k) ==
    LET before == {j \in 1..(k - 1) : headings[j].level < headings[k].level}
    IN  IF before = {} THEN 0 ELSE CHOOSE j \in before : \A i \in before : i <= j

\* The texts of the headings whose parent is heading j, in their order.
ChildTexts(headings, j) ==
    LET ks == SortedSet({k \in DOMAIN headings : NearestSmaller(headings, k) = j})
    IN  [n \in DOMAIN ks |-> headings[ks[n]].text]

\* The pairs <<paragraph of the parent (-1: root), paragraph of the child>>
\* of the nested tree.
RECURSIVE TreeEdges(_, _)
TreeEdges(nodes, parent) ==
    UNION {{<<parent, nodes[n].paragraph_index>>}
           \cup TreeEdges(nodes[n].children, nodes[n].paragraph_index) :
              n \in DOMAIN nodes}

ParentParagraph(headings, k) ==
    IF NearestSmaller(headings, k) = 0 THEN -1
    ELSE headings[NearestSmaller(headings, k)].paragraph_index

\* The parent field of every flat entry is the text of the nearest
\* preceding heading of smaller level, and the tree has exactly these
\* parent-child pairs.
ParentsAsStackRule ==
    LET headings == doc.headings
        flat == doc.heading_structure.flat
    IN  /\ Len(flat) = Len(headings)
        /\ \A k \in DOMAIN headings :
              IF NearestSmaller(headings, k) = 0 THEN IsNone(flat[k], "parent")
              ELSE /\ ~IsNone(flat[k], "parent")
                   /\ flat[k].parent = headings[NearestSmaller(headings, k)].text
        /\ TreeEdges(doc.heading_structure.tree, -1) =
              {<<ParentParagraph(headings, k), headings[k].paragraph_index>> :
                  k \in DOMAIN headings}

\* C22: the parent of each heading is the nearest preceding heading with a
\* strictly smaller level (root when there is none), and the children
\* fields of the flat list describe the same relation as the nested tree:
\* the children of an entry are the headings whose parent it is.
C22_TreeAndFlatAgree ==
    pc = "parsed" =>
        /\ ParentsAsStackRule
        /\ \A j \in DOMAIN doc.headings :
              doc.heading_structure.flat[j].children = ChildTexts(doc.headings, j)

\* The tree alone follows the stack rule; so does the flat list when no two
\* headings have the same text.
C22_TreeFollowsStackRule ==
    pc = "parsed" =>
        /\ ParentsAsStackRule
        /\ (\A j, k \in DOMAIN doc.headings :
                doc.headings[j].text = doc.headings[k].text => j = k)
             => \A j \in DOMAIN doc.headings :
                  doc.heading_structure.flat[j].children = ChildTexts(doc.headings, j)

(***************************************************************************)
(* The page-grouped display list of the locations of one issue:            *)
(* RuleEngine._build_locations_list on the locations a rule has flagged.   *)
(* `issues` holds the locations, `merged` the display list.                *)
(***************************************************************************)
MaxDisplayParagraphs ==
    5

BuildLocationsList ==
    /\ pc = "display"
    /\ merged' = _build_locations_list(issues)
    /\ pc' = "displayed"
    /\ UNCHANGED <<doc, rules, mode, ruleIdx, issues, remerged,
                   fs, revs, user, reqs, checks, orders>>

\* The line ranges of paragraphs 0, 1, ... of lengths[k] lines each, with
\* gaps[k] lines between a paragraph and the one before; paragraphs from
\* `split` on are on page 2, where the lines start again.
RECURSIVE LinesFrom(_, _, _, _, _)
LinesFrom(lengths, gaps, split, k, line) ==
    IF k > Len(lengths) THEN <<>>
    ELSE LET start == (IF k - 1 = split THEN 1 ELSE line) + gaps[k]
         IN  <<[index |-> k - 1,
                page_number |-> IF k - 1 < split THEN 1 ELSE 2,
                start_line |-> start, end_line |-> start + lengths[k] - 1]>>
             \o LinesFrom(lengths, gaps, split, k + 1, start + lengths[k])

\* The location of a flagged paragraph, or of a run of it.
DisplayLocation(type, p) ==
    IF type = "paragraph"
    THEN [type |-> "paragraph", index |-> p.index, page_number |-> p.page_number,
          start_line |-> p.start_line, end_line |-> p.end_line]
    ELSE [type |-> "run", paragraph_index |-> p.index, run_index |-> 0,
          page_number |-> p.page_number]

\* The locations of the flagged paragraphs in document order, the first
\* twice when `twice`.
FlaggedLocations(type, layout, flagged, twice) ==
    LET ks == SortedSet(flagged)
        locs == [n \in DOMAIN ks |-> DisplayLocation(type, layout[ks[n] + 1])]
    IN  IF twice /\ locs # <<>> THEN <<locs[1]>> \o locs ELSE locs

InitDisplay ==
    /\ \E type \in {"paragraph", "run"},
          lengths \in [1..MaxDisplayParagraphs -> 1..2],
          gapped \in 1..MaxDisplayParagraphs,
          split \in {2, MaxDisplayParagraphs},
          flagged \in SUBSET (0..(MaxDisplayParagraphs - 1)),
          twice \in BOOLEAN :
            issues = FlaggedLocations(type,
                        LinesFrom(lengths,
                                  [k \in 1..MaxDisplayParagraphs |->
                                      IF k = gapped /\ k > 1 THEN 1 ELSE 0],
                                  split, 1, 1),
                        flagged, twice)
    /\ doc = EmptyDoc /\ rules = <<>> /\ mode = "sync" /\ ruleIdx = 1
    /\ merged = <<>> /\ remerged = <<>>
    /\ pc = "display"
    /\ NoRevision
    /\ NoSubmission

SpecDisplay ==
    InitDisplay /\ [][BuildLocationsList]_vars

\* The index of a location, whatever its type.
FlaggedIndex(loc) ==
    IF loc.type = "run" THEN loc.paragraph_index ELSE loc.index

\* The first location of this index.
LocationOf(x) ==
    issues[CHOOSE k \in DOMAIN issues :
              /\ FlaggedIndex(issues[k]) = x
              /\ \A j \in 1..(k - 1) : FlaggedIndex(issues[j]) # x]

FlaggedOn(page) ==
    {FlaggedIndex(issues[k]) : k \in {j \in DOMAIN issues : issues[j].page_number = page}}

\* Flagged paragraphs x and x + 1 of a page belong to the same group:
\* consecutive indices and, for paragraph locations, contiguous lines.
Linked(page, x) ==
    /\ x \in FlaggedOn(page)
    /\ x + 1 \in FlaggedOn(page)
    /\ LocationOf(x).type = "paragraph" =>
          LocationOf(x + 1).start_line = LocationOf(x).end_line + 1

\* The maximal group of x on its page.
GroupAt(page, x) ==
    {y \in FlaggedOn(page) :
        \A z \in (IF x < y THEN x ELSE y)..((IF x < y THEN y ELSE x) - 1) :
            Linked(page, z)}

IsSummary(item) ==
    item[1] \in {"paragraphs_from_to", "paragraphs_from_to_line",
                 "paragraphs_from_to_lines"}

\* The indices a display item stands for.
CoveredBy(item) ==
    IF IsSummary(item) THEN (item[2] - 1)..(item[3] - 1) ELSE {item[2] - 1}

RECURSIVE RawIssues(_, _, _)
RawIssues(rs, doc_data, m) ==
    IF rs = <<>> THEN <<>>
    ELSE RuleIssues(Head(rs), doc_data, m) \o RawIssues(Tail(rs), doc_data, m)

\* C25: with AI checking disabled check_document returns the same issue
\* list as check_document_sync for every rule set and snapshot, whatever
\* checker kind each rule declares: the issue list a finished check has
\* returned is the one the other method gives for the same rules and
\* document.
C25_AsyncEqualsSync ==
    pc = "done" =>
        /\ merged = _merge_issues_by_rule(RawIssues(rules, doc, "sync"))
        /\ merged = _merge_issues_by_rule(RawIssues(rules, doc, "async"))

\* The two methods agree on the rules whose checker is absent or one of
\* deterministic, ai and hybrid.
C25_EqualOnKnownCheckers ==
    (/\ pc = "done"
     /\ \A k \in DOMAIN rules :
           Get(rules[k], "checker", "deterministic") \in {"deterministic", "ai", "hybrid"})
        => /\ merged = _merge_issues_by_rule(RawIssues(rules, doc, "sync"))
           /\ merged = _merge_issues_by_rule(RawIssues(rules, doc, "async"))

(***************************************************************************)
(* Rules of a rule template: config_to_rules (rule_engine.py).  Lengths of *)
(* the config are in hundredths of a centimetre, those of a condition in   *)
(* hundredths of a millimetre.  A template is checked against the parsed   *)
(* document, the reported issues are fixed by the revision engine and the  *)
(* revised file is parsed again.                                           *)
(***************************************************************************)
FirstTemplateRuleId ==
    1000

\* db_rule_map: the database rule of this id (the last one), << >> if none.
DbRule(db_rules, id) ==
    LET found == {k \in DOMAIN db_rules : Get(db_rules[k], "id", None) = id}
    IN  IF found = {} THEN << >>
        ELSE db_rules[CHOOSE k \in found : \A j \in found : j <= k]

\* rule["fix_action"], rule["fix_params"] of the database rule, if any.
WithFixOf(rule, db_rules, id) ==
    IF DbRule(db_rules, id) = << >> THEN rule
    ELSE Put(Put(rule, "fix_action", Get(DbRule(db_rules, id), "fix_action", None)),
             "fix_params", Get(DbRule(db_rules, id), "fix_params", None))

TemplateRule(name, category, match, condition) ==
    [name |-> name, category |-> category, match |-> match,
     condition |-> condition, error_message |-> name, suggestion |-> name,
     checker |-> "deterministic"]

PageRulesOf(config, db_rules) ==
    LET page_config == Get(config, "page", << >>)
        margins == Get(page_config, "margins", << >>)
    IN  IF page_config = << >> THEN <<>>
        ELSE (IF margins = << >> THEN <<>>
              ELSE <<WithFixOf(
                        TemplateRule("page_margins", "page", "document",
                            [top_mm |-> Get(margins, "top_cm", 250) * 10,
                             bottom_mm |-> Get(margins, "bottom_cm", 250) * 10,
                             left_mm |-> Get(margins, "left_cm", 300) * 10,
                             right_mm |-> Get(margins, "right_cm", 250) * 10,
                             tolerance_mm |-> 200]),
                        db_rules, "PAGE_MARGIN_25")>>)
             \o (IF Get(page_config, "paper_name", "A4") = "A4"
                 THEN <<TemplateRule("paper_size", "page", "document",
                                     [paper_name |-> "A4"])>>
                 ELSE <<>>)

BodyRulesOf(config, db_rules) ==
    LET body_config == Get(config, "body", << >>)
    IN  IF body_config = << >> THEN <<>>
        ELSE (IF ~IsNone(body_config, "font") /\ ~IsNone(body_config, "size_pt")
              THEN <<WithFixOf(
                        TemplateRule("body_font", "font", "run",
                            [chinese_font |-> body_config["font"],
                             chinese_size_pt |-> body_config["size_pt"]]),
                        db_rules, "FONT_BODY_SONGTI")>>
              ELSE <<>>)
             \o (IF ~IsNone(body_config, "line_spacing_pt")
                 THEN <<TemplateRule("body_line_spacing", "paragraph", "paragraph",
                            [paragraph_line_spacing |-> body_config["line_spacing_pt"]])>>
                 ELSE <<>>)
             \o (IF ~IsNone(body_config, "first_line_indent_chars")
                 THEN <<WithFixOf(
                           TemplateRule("body_indent", "paragraph", "paragraph",
                               [first_line_indent_chars |->
                                    body_config["first_line_indent_chars"]]),
                           db_rules, "PARA_INDENT_2CHAR")>>
                 ELSE <<>>)

HeadingRuleOf(heading, db_rules) ==
    IF IsNone(heading, "level") \/ IsNone(heading, "font") \/ IsNone(heading, "size_pt")
    THEN <<>>
    ELSE LET base == [font |-> heading["font"], size_pt |-> heading["size_pt"]]
             bolded == IF IsNone(heading, "bold") THEN base
                       ELSE Put(base, "bold", heading["bold"])
             level_condition == IF IsNone(heading, "alignment") THEN bolded
                                ELSE Put(bolded, "alignment", heading["alignment"])
         IN  <<WithFixOf(
                   TemplateRule("heading_style", "heading", "heading",
                       Put(<< >>, LevelKey(heading), level_condition)),
                   db_rules, "HEADING_STYLES")>>

RECURSIVE HeadingRulesOf(_, _)
HeadingRulesOf(headings_config, db_rules) ==
    IF headings_config = <<>> THEN <<>>
    ELSE HeadingRuleOf(Head(headings_config), db_rules)
         \o HeadingRulesOf(Tail(headings_config), db_rules)

PageNumberRulesOf(config) ==
    LET page_number_config == Get(config, "page_number", << >>)
    IN  IF /\ ~IsNone(page_number_config, "font")
           /\ ~IsNone(page_number_config, "size_pt")
        THEN <<TemplateRule("page_number", "other", "document",
                   [_page_number_font |-> page_number_config["font"],
                    _page_number_size_pt |-> page_number_config["size_pt"]])>>
        ELSE <<>>

config_to_rules(config, db_rules) ==
    LET rs == PageRulesOf(config, db_rules) \o BodyRulesOf(config, db_rules)
              \o HeadingRulesOf(Get(config, "headings", <<>>), db_rules)
              \o PageNumberRulesOf(config)
    IN  [k \in DOMAIN rs |-> Put(rs[k], "id", FirstTemplateRuleId + k - 1)]

\* DocxParser._parse_page_settings.emu_to_mm: round(emu / 914400 * 25.4, 2),
\* in hundredths of a millimetre.
emu_to_mm(emu) ==
    (emu + 180) \div 360

\* DocxParser._parse_page_settings: the settings of the first section.
_parse_page_settings(d) ==
    LET section == d.sections[1]
    IN  [margins |-> [top_mm |-> emu_to_mm(section.top_margin),
                      bottom_mm |-> emu_to_mm(section.bottom_margin),
                      left_mm |-> emu_to_mm(section.left_margin),
                      right_mm |-> emu_to_mm(section.right_margin)],
         paper_size |-> [width_mm |-> emu_to_mm(section.page_width),
                         height_mm |-> emu_to_mm(section.page_height)]]

\* DocxParser.parse of a document without paragraphs.
ParseEmptyBody(d) ==
    [EmptyDoc EXCEPT !.page_settings = _parse_page_settings(d)]

\* A document of one A4 section and no paragraph.
A4Docx(top_mm, bottom_mm, left_mm, right_mm) ==
    [readable |-> TRUE, settings |-> {},
     sections |-> <<Put(Put(DocxSection(top_mm, bottom_mm, left_mm, right_mm),
                            "page_width", Mm(A4WidthMm)),
                        "page_height", Mm(A4HeightMm))>>,
     paragraphs |-> <<>>]

TemplateDocs ==
    {A4Docx(2000, 2000, 2000, 2000), A4Docx(2540, 2540, 3170, 3170),
     A4Docx(2500, 2500, 3000, 2500), A4Docx(2500, 2500, 3000, 1500)}

\* Rule templates: the default margins, margins of 2.54cm and 3.17cm, and a
\* template of body, heading and page number formats on Letter paper.
TemplateConfigs ==
    {[page |-> [margins |-> [top_cm |-> 250, bottom_cm |-> 250,
                             left_cm |-> 300, right_cm |-> 250],
                paper_name |-> "A4"]],
     [page |-> [margins |-> [top_cm |-> 254, bottom_cm |-> 254,
                             left_cm |-> 317, right_cm |-> 317]]],
     [page |-> [paper_name |-> "Letter"],
      body |-> [font |-> <<"SimSun">>, size_pt |-> 120, line_spacing_pt |-> 200,
                first_line_indent_chars |-> 20],
      headings |-> <<[level |-> 1, font |-> <<"SimHei">>, size_pt |-> 160,
                      bold |-> TRUE, alignment |-> "center"]>>,
      page_number |-> [font |-> <<"SimSun">>, size_pt |-> 90]]}

\* The rules of the database: none, or the page margin rule with its fix.
DbRuleSets ==
    {<<>>,
     <<[id |-> "PAGE_MARGIN_25", fix_action |-> "set_page_margin",
        fix_params |-> [top_mm |-> 2540, bottom_mm |-> 2540,
                        left_mm |-> 3180, right_mm |-> 3180]],
       [id |-> "FONT_BODY_SONGTI", fix_action |-> "set_run_style",
        fix_params |-> [chinese_font |-> "SimSun", size_pt |-> 120]]>>}

InitTemplateFix ==
    /\ NoSubmission
    /\ revs = <<>>
    /\ mode = "sync" /\ pc = "check" /\ ruleIdx = 1
    /\ issues = <<>> /\ merged = <<>> /\ remerged = <<>>
    /\ \E d \in TemplateDocs, config \in TemplateConfigs, db_rules \in DbRuleSets :
          /\ fs = Put(<< >>, OriginalPath, d)
          /\ doc = ParseEmptyBody(d)
          /\ rules = config_to_rules(config, db_rules)

\* generate_revised_document (checks.py): the issues of the check result
\* are given to a RevisionEngine on the checked file.
ReviseChecked ==
    /\ pc = "done"
    /\ revs = <<>>
    /\ revs' = <<Invocation(OriginalPath, merged)>>
    /\ pc' = "revise"
    /\ UNCHANGED <<doc, rules, mode, ruleIdx, issues, merged, remerged, fs,
                   user, reqs, checks, orders>>

\* The revised file is parsed as a check of it would.
ParseRevised ==
    /\ pc = "revise"
    /\ revs[1].pc = "returned"
    /\ doc' = ParseEmptyBody(fs[revs[1].revised_path])
    /\ pc' = "reparsed"
    /\ UNCHANGED <<rules, mode, ruleIdx, issues, merged, remerged, fs, revs,
                   user, reqs, checks, orders>>

NextTemplateFix ==
    \/ CheckNextRule
    \/ MergeIssues
    \/ ReviseChecked
    \/ \E i \in DOMAIN revs, suffix \in Suffixes : CopyOriginal(i, suffix)
    \/ \E i \in DOMAIN revs : LoadCopy(i)
    \/ \E i \in DOMAIN revs : ApplyIssue(i)
    \/ \E i \in DOMAIN revs : SaveRevised(i)
    \/ ParseRevised

SpecTemplateFix ==
    InitTemplateFix /\ [][NextTemplateFix]_vars

\* The rules with a fix action that reported an issue.
FixedRules ==
    {k \in DOMAIN rules :
        /\ Get(rules[k], "fix_action", None) # None
        /\ \E j \in DOMAIN merged : merged[j].rule_id = rules[k].id}

\* C26: in SpecTemplateFix, once the issues of a template check have been
\* fixed and the revised file parsed, every rule of config_to_rules that
\* has a fix action and reported an issue passes on the revised document.
C26_FixSatisfiesRule ==
    pc = "reparsed" =>
        \A k \in FixedRules : _check_rule(rules[k], doc) = <<>>

\* After the fix the margins are those of the fix parameters.
C26_FixAppliesItsParams ==
    pc = "reparsed" =>
        \A k \in FixedRules :
            rules[k].fix_action = "set_page_margin" =>
                doc.page_settings.margins = rules[k].fix_params


(***************************************************************************)
(* The level of a heading: DocxParser._parse_headings gives each heading   *)
(* paragraph a level, a heading rule flags the heading by the condition of *)
(* that level, and the set_heading_style fix picks the fix parameters of a *)
(* level of its own.  Font sizes are in tenths of a point.                 *)
(***************************************************************************)
VisualHeadingMinSize ==
    140

VisualLevel2MinSize ==
    160

VisualLevel1MinSize ==
    200

VisualHeadingMaxLength ==
    50

RECURSIVE TextFrom(_, _)
TextFrom(nodes, k) ==
    IF k > Len(nodes) THEN <<>>
    ELSE (IF nodes[k].kind = "r" THEN nodes[k].text ELSE <<>>) \o TextFrom(nodes, k + 1)

\* para.text
ParagraphText(paragraph) ==
    TextFrom(paragraph.nodes, 1)

\* run.font.size.pt of a run, Null without w:sz.
RunSizePt(run) ==
    IF IsNone(run.rPr, "sz") THEN Null ELSE run.rPr["sz"] * 5

\* DocxParser._parse_font of a run whose paragraph style sets no font; None
\* is an absent key.
_parse_font(run) ==
    LET named == IF IsNone(run.rPr, "name") \/ run.rPr["name"] = "" THEN << >>
                 ELSE Put(<< >>, "name", Get(FontMap, run.rPr["name"], run.rPr["name"]))
        sized == IF RunSizePt(run) \in {Null, 0} THEN named
                 ELSE Put(named, "size_pt", RunSizePt(run))
    IN  Put(sized, "bold", Get(run.rPr, "bold", FALSE))

\* The level _parse_headings gives the paragraph, 0 if it is no heading.
ParsedLevel(paragraph) ==
    LET runs == RunPositions(paragraph)
        first_run == paragraph.nodes[CHOOSE k \in runs : \A j \in runs : k <= j]
        font_size == RunSizePt(first_run)
    IN  IF Strip(ParagraphText(paragraph)) = <<>> THEN 0
        ELSE IF paragraph.style # <<>> /\ paragraph.style[1] = "Heading"
        THEN StyleLevel(paragraph.style)
        ELSE IF runs = {} THEN 0
        ELSE IF /\ font_size # Null
                /\ font_size >= VisualHeadingMinSize
                /\ Get(first_run.rPr, "bold", FALSE)
                /\ Len(Strip(ParagraphText(paragraph))) <= VisualHeadingMaxLength
        THEN (IF font_size >= VisualLevel1MinSize THEN 1
              ELSE IF font_size >= VisualLevel2MinSize THEN 2
              ELSE 3)
        ELSE 0

HeadingData(paragraph, para_idx) ==
    LET runs == RunPositions(paragraph)
        base == [level |-> ParsedLevel(paragraph),
                 text |-> Strip(ParagraphText(paragraph)),
                 style_name |-> paragraph.style,
                 alignment |-> IF paragraph.alignment = None THEN "left"
                               ELSE paragraph.alignment,
                 paragraph_index |-> para_idx]
    IN  IF runs = {} THEN base
        ELSE Put(base, "font",
                 _parse_font(paragraph.nodes[CHOOSE k \in runs : \A j \in runs : k <= j]))

RECURSIVE HeadingsFrom(_, _)
HeadingsFrom(paragraphs, k) ==
    IF k > Len(paragraphs) THEN <<>>
    ELSE (IF ParsedLevel(paragraphs[k]) # 0
          THEN <<HeadingData(paragraphs[k], k - 1)>>
          ELSE <<>>)
         \o HeadingsFrom(paragraphs, k + 1)

_parse_headings(d) ==
    HeadingsFrom(d.paragraphs, 1)

\* The part of the snapshot that a heading rule reads.
ParseHeadingsOnly(d) ==
    [EmptyDoc EXCEPT !.headings = _parse_headings(d)]

\* Heading paragraphs of one bold run: with a heading style or with the
\* style Normal, in 14pt, 16pt and 22pt.
HeadingParagraphs ==
    {DocxParagraph(style, None, << >>,
         <<RunNode(<<"A">>, [name |-> "Arial", sz |-> sz, bold |-> bold])>>) :
        style \in {<<"Heading", "1">>, <<"Heading", "2">>, <<"Normal">>},
        sz \in {28, 32, 44}, bold \in BOOLEAN}

\* The format of the headings of a level: SimHei in 22pt, 16pt and 14pt.
LevelFormats ==
    [level1 |-> [font |-> "SimHei", size_pt |-> 220, bold |-> TRUE],
     level2 |-> [font |-> "SimHei", size_pt |-> 160, bold |-> TRUE],
     level3 |-> [font |-> "SimHei", size_pt |-> 140, bold |-> TRUE]]

HeadingStyleRule ==
    [id |-> "HEADING_STYLES", name |-> "heading_styles", category |-> "heading",
     match |-> "heading", condition |-> LevelFormats,
     error_message |-> "heading_styles", suggestion |-> "heading_styles",
     checker |-> "deterministic", fix_action |-> "set_heading_style",
     fix_params |-> LevelFormats]

InitHeadingFix ==
    /\ NoSubmission
    /\ revs = <<>>
    /\ mode = "sync" /\ pc = "check" /\ ruleIdx = 1
    /\ issues = <<>> /\ merged = <<>> /\ remerged = <<>>
    /\ rules = <<HeadingStyleRule>>
    /\ \E p1 \in HeadingParagraphs, p2 \in HeadingParagraphs :
          LET d == [readable |-> TRUE, settings |-> {},
                    sections |-> <<DocxSection(2540, 2540, 3180, 3180)>>,
                    paragraphs |-> <<p1, p2>>]
          IN  /\ fs = Put(<< >>, OriginalPath, d)
              /\ doc = ParseHeadingsOnly(d)

NextHeadingFix ==
    \/ CheckNextRule
    \/ MergeIssues
    \/ ReviseChecked
    \/ \E i \in DOMAIN revs, suffix \in Suffixes : CopyOriginal(i, suffix)
    \/ \E i \in DOMAIN revs : LoadCopy(i)
    \/ \E i \in DOMAIN revs : ApplyIssue(i)
    \/ \E i \in DOMAIN revs : SaveRevised(i)

SpecHeadingFix ==
    InitHeadingFix /\ [][NextHeadingFix]_vars

\* The locations of the headings that the heading rule flagged.
FlaggedHeadings ==
    {loc \in UNION {Range(merged[k].raw_locations) : k \in DOMAIN merged} :
        loc.type = "heading"}

\* The first run of the paragraph of the location in the revised file has
\* the size of the format of this level.
FixedAsLevel(loc, level_key) ==
    LET paragraph == fs[revs[1].revised_path].paragraphs[loc.paragraph_index + 1]
    IN  paragraph.nodes[1].rPr["sz"] = (LevelFormats[level_key].size_pt * 2) \div 10

\* C27: in SpecHeadingFix, once the revised file is saved, every heading
\* that the heading rule flagged has been given the format of the level
\* the parser assigned to it (the level of its location).
C27_FixUsesParsedLevel ==
    (revs # <<>> /\ revs[1].pc = "returned") =>
        \A loc \in FlaggedHeadings : FixedAsLevel(loc, LevelKey(loc))

\* Headings with a heading style get the format of the parsed level.
C27_StyleNamedAgree ==
    (revs # <<>> /\ revs[1].pc = "returned") =>
        \A loc \in FlaggedHeadings :
            fs[OriginalPath].paragraphs[loc.paragraph_index + 1].style[1] = "Heading"
                => FixedAsLevel(loc, LevelKey(loc))


(***************************************************************************)
(* Uploads, checks and revisions of one user (api/checks.py).  The user's  *)
(* upload directory is fs; a file name is the sequence of its parts, e.g.  *)
(* <<"20240101_000000", "_", "file_1", "_", "thesis", ".docx">>.  A check  *)
(* record holds file_id, file_path, the issues of its result and the path  *)
(* of its revised copy (<<>> for None).                                    *)
(***************************************************************************)
MaxUploads ==
    2

FileIds ==
    {"file_1", "file_2"}

\* f"{timestamp}_{file_id}_{file.filename}"
UploadPath(file_id) ==
    <<"20240101_000000", "_", file_id, "_", "thesis", ".docx">>

\* pattern.search(f) for the pattern f'_{file_id}(_|\.docx$)'.
MatchesFileId(f, file_id) ==
    \E k \in 2..(Len(f) - 1) :
        /\ f[k] = file_id
        /\ f[k - 1] \in {"_", "_revised_"}
        /\ \/ f[k + 1] \in {"_", "_revised_"}
           \/ f[k + 1] = ".docx" /\ k + 1 = Len(f)

\* [f for f in os.listdir(user_upload_dir) if pattern.search(f)]
MatchingFiles(file_id) ==
    {f \in DOMAIN fs : MatchesFileId(f, file_id)}

\* The rules of the database: the page margin rule with its fix.
DbRules ==
    <<[id |-> "PAGE_MARGIN_25", name |-> "page_margins", category |-> "page",
       match |-> "document",
       condition |-> [top_mm |-> 2540, bottom_mm |-> 2540, left_mm |-> 3180,
                      right_mm |-> 3180, tolerance_mm |-> 100],
       error_message |-> "page_margins", suggestion |-> "page_margins",
       checker |-> "deterministic", fix_action |-> "set_page_margin",
       fix_params |-> [top_mm |-> 2540, bottom_mm |-> 2540, left_mm |-> 3180,
                       right_mm |-> 3180]]>>

\* upload_document: the file is saved under a new file_id.
UploadDocument(file_id, content) ==
    /\ Cardinality({f \in DOMAIN fs : Len(f) = Len(UploadPath(file_id))}) < MaxUploads
    /\ UploadPath(file_id) \notin DOMAIN fs
    /\ fs' = Put(fs, UploadPath(file_id), content)
    /\ UNCHANGED <<doc, rules, mode, pc, ruleIdx, issues, merged, remerged,
                   revs, user, reqs, checks, orders>>

\* submit_check without a rule template: matching_files[0] of the listing
\* (os.listdir returns the names in arbitrary order) is file_path.
SubmitCheckOnFile(check_type, file_id, file_path) ==
    /\ Len(checks) < MaxRequests
    /\ LET current_user == reset_free_count_if_needed(user, user["last_reset_date"])
           cost_type == check_count_available(current_user, check_type)
           doc_data == ParseEmptyBody(fs[file_path])
       IN  /\ cost_type # "forbidden"
           /\ file_path \in MatchingFiles(file_id)
           /\ user' = Decremented(current_user, cost_type)
           /\ checks' = Append(checks,
                  [check_type |-> check_type, cost_type |-> cost_type,
                   file_id |-> file_id, file_path |-> file_path,
                   status |-> IF fs[file_path].readable THEN "completed" ELSE "failed",
                   has_result |-> fs[file_path].readable,
                   issues |-> IF fs[file_path].readable
                              THEN _merge_issues_by_rule(
                                       RawIssues(DbRules, doc_data, "sync"))
                              ELSE <<>>,
                   revised_file_path |-> <<>>])
    /\ UNCHANGED <<doc, rules, mode, pc, ruleIdx, issues, merged, remerged,
                   fs, revs, reqs, orders>>

\* generate_revised_document of a completed check without a revised copy:
\* the RevisionEngine writes the copy into the directory of the checked
\* file.
GenerateRevised(c, suffix) ==
    /\ checks[c].status = "completed"
    /\ ~(checks[c].revised_file_path # <<>>
         /\ checks[c].revised_file_path \in DOMAIN fs)
    /\ LET revised_path == RevisedPath(checks[c].file_path, suffix)
       IN  /\ fs' = Put(fs, revised_path,
                        RevisedDocument(fs[checks[c].file_path], checks[c].issues))
           /\ checks' = [checks EXCEPT ![c].revised_file_path = revised_path]
    /\ UNCHANGED <<doc, rules, mode, pc, ruleIdx, issues, merged, remerged,
                   revs, user, reqs, orders>>

InitUpload ==
    /\ NoCheck
    /\ NoRevision
    /\ user = [free_count |-> 0, basic_count |-> MaxRequests, full_count |-> 1,
               last_reset_date |-> 1]
    /\ reqs = <<>>
    /\ checks = <<>>
    /\ orders = <<>>

NextUpload ==
    \/ \E file_id \in FileIds, content \in TemplateDocs : UploadDocument(file_id, content)
    \/ \E check_type \in {"basic", "full"}, file_id \in FileIds, file_path \in DOMAIN fs :
            SubmitCheckOnFile(check_type, file_id, file_path)
    \/ \E c \in DOMAIN checks, suffix \in Suffixes : GenerateRevised(c, suffix)

SpecUpload ==
    InitUpload /\ [][NextUpload]_vars

\* C28: in SpecUpload, the file of every check record is the file that
\* upload_document saved for the file_id of the check.
C28_ChecksTheUpload ==
    \A c \in DOMAIN checks : checks[c].file_path = UploadPath(checks[c].file_id)

\* Before any revised copy exists, the file_id resolves to the upload.
C28_UploadFoundBeforeRevision ==
    \A file_id \in FileIds :
        (\A f \in DOMAIN fs : Len(f) = Len(UploadPath(file_id))) =>
            MatchingFiles(file_id) \subseteq {UploadPath(file_id)}


(***************************************************************************)
(* Orders (api/purchase.py).  An order row holds its status, count_type    *)
(* and product_count; its field trade_state is the state of the order at   *)
(* the payment platform.  Each request works in a database session of its  *)
(* own: what it has loaded stays as loaded, and a commit writes the        *)
(* attributes it changed.  Under the isolation level "repeatable_read" all *)
(* reads of a request come from the snapshot of its first read, under      *)
(* "read_committed" each read sees the rows as committed at that moment.   *)
(***************************************************************************)
MaxOrders ==
    2

MaxOrderRequests ==
    2

IsolationLevels ==
    {"read_committed", "repeatable_read"}

\* The rows a read of request r sees.
View(r) ==
    IF reqs[r].isolation = "repeatable_read" THEN reqs[r].snapshot
    ELSE [user |-> user, orders |-> orders]

OrderRequest(kind, o, isolation, next_pc) ==
    [kind |-> kind, order |-> o, isolation |-> isolation,
     snapshot |-> IF isolation = "repeatable_read"
                  THEN [user |-> user, orders |-> orders] ELSE << >>,
     session_user |-> << >>, trade_state |-> None, code |-> 0, pc |-> next_pc]

CanBegin(isolation) ==
    /\ Len(reqs) < MaxOrderRequests
    /\ \A r \in DOMAIN reqs : reqs[r].isolation = isolation

\* The customer pays the order.
Pay(o) ==
    /\ orders[o].trade_state = "NOTPAY"
    /\ orders' = [orders EXCEPT ![o].trade_state = "SUCCESS"]
    /\ UNCHANGED <<doc, rules, mode, pc, ruleIdx, issues, merged, remerged,
                   fs, revs, user, reqs, checks>>

\* The payment is refunded at the platform.
Refund(o) ==
    /\ orders[o].trade_state = "SUCCESS"
    /\ orders' = [orders EXCEPT ![o].trade_state = "REFUND"]
    /\ UNCHANGED <<doc, rules, mode, pc, ruleIdx, issues, merged, remerged,
                   fs, revs, user, reqs, checks>>

\* get_current_user of a query_order or close_order request.
BeginOrderRequest(kind, o, isolation) ==
    /\ CanBegin(isolation)
    /\ reqs' = Append(reqs,
           [OrderRequest(kind, o, isolation, "order") EXCEPT !.session_user = user])
    /\ UNCHANGED <<doc, rules, mode, pc, ruleIdx, issues, merged, remerged,
                   fs, revs, user, checks, orders>>

\* query_order, close_order: the order is loaded and its status tested.
LoadOrder(r) ==
    /\ reqs[r].pc = "order"
    /\ reqs' = [reqs EXCEPT
                   ![r].pc = IF View(r).orders[reqs[r].order].status = "pending"
                             THEN "wechat" ELSE "done",
                   ![r].code = IF View(r).orders[reqs[r].order].status = "pending"
                               THEN 0
                               ELSE IF reqs[r].kind = "close" THEN 4005 ELSE 200]
    /\ UNCHANGED <<doc, rules, mode, pc, ruleIdx, issues, merged, remerged,
                   fs, revs, user, checks, orders>>

\* query_order: wxpay.query_order(order_no) gives the trade state.
QueryWechat(r) ==
    /\ reqs[r].kind = "query"
    /\ reqs[r].pc = "wechat"
    /\ LET trade_state == orders[reqs[r].order].trade_state
       IN  reqs' = [reqs EXCEPT
                       ![r].trade_state = trade_state,
                       ![r].code = IF trade_state = "NOTPAY" THEN 200 ELSE 0,
                       ![r].pc = IF trade_state = "NOTPAY" THEN "done" ELSE "commit"]
    /\ UNCHANGED <<doc, rules, mode, pc, ruleIdx, issues, merged, remerged,
                   fs, revs, user, checks, orders>>

\* close_order: wxpay.close_order(order_no) closes an unpaid order at the
\* platform; for any other order it reports success or failure.
CloseAtWechat(r, success) ==
    /\ reqs[r].kind = "close"
    /\ reqs[r].pc = "wechat"
    /\ orders[reqs[r].order].trade_state = "NOTPAY" => success
    /\ orders' = IF orders[reqs[r].order].trade_state = "NOTPAY"
                 THEN [orders EXCEPT ![reqs[r].order].trade_state = "CLOSED"]
                 ELSE orders
    /\ reqs' = [reqs EXCEPT
                   ![r].trade_state = "CLOSED",
                   ![r].code = IF success THEN 0 ELSE 5001,
                   ![r].pc = IF success THEN "commit" ELSE "done"]
    /\ UNCHANGED <<doc, rules, mode, pc, ruleIdx, issues, merged, remerged,
                   fs, revs, user, checks>>

\* wechat_notify for a paid order: the order is loaded; the user is
\* loaded next if the order is pending.  The handler is a coroutine without
\* an await between its first query and its commit: no two callbacks are
\* in this part at a time, while the threads of query_order and
\* close_order run beside it.
BeginNotify(o, isolation) ==
    /\ CanBegin(isolation)
    /\ \A r \in DOMAIN reqs : reqs[r].kind = "notify" => reqs[r].pc = "done"
    /\ orders[o].trade_state = "SUCCESS"
    /\ reqs' = Append(reqs,
           [OrderRequest("notify", o, isolation,
                         IF orders[o].status = "pending" THEN "user" ELSE "done")
               EXCEPT !.trade_state = "SUCCESS"])
    /\ UNCHANGED <<doc, rules, mode, pc, ruleIdx, issues, merged, remerged,
                   fs, revs, user, checks, orders>>

\* wechat_notify: db.query(User).filter(User.id == order.user_id).first()
LoadUser(r) ==
    /\ reqs[r].pc = "user"
    /\ reqs' = [reqs EXCEPT ![r].session_user = View(r).user, ![r].pc = "commit"]
    /\ UNCHANGED <<doc, rules, mode, pc, ruleIdx, issues, merged, remerged,
                   fs, revs, checks, user, orders>>

\* The user of the session with product_count added to the count of the
\* order's count_type.
Credited(u, order) ==
    IF order.count_type = "basic"
    THEN [u EXCEPT !.basic_count = @ + order.product_count]
    ELSE [u EXCEPT !.full_count = @ + order.product_count]

\* The status is set, a paid order credits the user, db.commit().
CommitOrder(r) ==
    /\ reqs[r].pc = "commit"
    /\ LET o == reqs[r].order
           status == CASE reqs[r].trade_state = "SUCCESS" -> "paid"
                       [] reqs[r].trade_state \in {"CLOSED", "REVOKED"} -> "closed"
                       [] reqs[r].trade_state = "REFUND" -> "refunded"
       IN  /\ orders' = [orders EXCEPT ![o].status = status]
           /\ user' = IF status = "paid"
                      THEN Flush(user, reqs[r].session_user,
                                 Credited(reqs[r].session_user, orders[o]))
                      ELSE user
    /\ reqs' = [reqs EXCEPT ![r].code = 200, ![r].pc = "done"]
    /\ UNCHANGED <<doc, rules, mode, pc, ruleIdx, issues, merged, remerged,
                   fs, revs, checks>>

\* One user without counts and pending orders: the first of one basic
\* count, the second of two counts.
InitOrders ==
    /\ NoCheck
    /\ NoRevision
    /\ user = [free_count |-> 0, basic_count |-> 0, full_count |-> 0]
    /\ reqs = <<>>
    /\ checks = <<>>
    /\ \E n \in 1..MaxOrders, count_type \in {"basic", "full"} :
          orders = [k \in 1..n |->
                       [status |-> "pending",
                        count_type |-> IF k = 1 THEN "basic" ELSE count_type,
                        product_count |-> k, trade_state |-> "NOTPAY"]]

NextOrders ==
    \/ \E o \in DOMAIN orders : Pay(o)
    \/ \E o \in DOMAIN orders : Refund(o)
    \/ \E kind \in {"query", "close"}, o \in DOMAIN orders,
          isolation \in IsolationLevels : BeginOrderRequest(kind, o, isolation)
    \/ \E r \in DOMAIN reqs : LoadOrder(r)
    \/ \E r \in DOMAIN reqs : QueryWechat(r)
    \/ \E r \in DOMAIN reqs, success \in BOOLEAN : CloseAtWechat(r, success)
    \/ \E o \in DOMAIN orders, isolation \in IsolationLevels : BeginNotify(o, isolation)
    \/ \E r \in DOMAIN reqs : LoadUser(r)
    \/ \E r \in DOMAIN reqs : CommitOrder(r)

SpecOrders ==
    InitOrders /\ [][NextOrders]_vars

\* The sum of product_count over the paid orders of the count type.
RECURSIVE PaidCount(_, _)
PaidCount(count_type, k) ==
    IF k > Len(orders) THEN 0
    ELSE (IF orders[k].status = "paid" /\ orders[k].count_type = count_type
          THEN orders[k].product_count ELSE 0)
         + PaidCount(count_type, k + 1)

NoRequestInFlight ==
    \A r \in DOMAIN reqs : reqs[r].pc = "done"

\* C29: in SpecOrders, when no request is in flight, the user's counts are
\* the sums of product_count of the orders that are PAID: each paid order
\* has credited once, and no closed, refunded or pending order has.
C29_CreditedExactlyOnce ==
    NoRequestInFlight =>
        /\ user.basic_count = PaidCount("basic", 1)
        /\ user.full_count = PaidCount("full", 1)

\* With one order that is not refunded, snapshot reads and no close_order
\* request, the counts are those of the paid order.
C29_OneOrderSnapshotReads ==
    (/\ NoRequestInFlight
     /\ Len(orders) = 1
     /\ orders[1].trade_state # "REFUND"
     /\ \A r \in DOMAIN reqs : reqs[r].isolation = "repeatable_read"
                               /\ reqs[r].kind # "close") =>
        /\ user.basic_count = PaidCount("basic", 1)
        /\ user.full_count = PaidCount("full", 1)


(***************************************************************************)
(* DocxParser._parse_paragraphs: the estimated page and the lines of each  *)
(* paragraph.                                                              *)
(***************************************************************************)
ParagraphsPerPage ==
    25

CharsPerLine ==
    50

MaxDocParagraphs ==
    27

\* len(text.split('\n'))
SplitLines(text) ==
    1 + Cardinality({k \in DOMAIN text : text[k] = "\n"})

\* max(1, len(text.split('\n')) + (len(text) // 50))
LineCount(text) ==
    IF SplitLines(text) + (Len(text) \div CharsPerLine) >= 1
    THEN SplitLines(text) + (Len(text) \div CharsPerLine)
    ELSE 1

\* One iteration of the loop: para_data of the paragraph of index idx (its
\* fields of page and lines) and line_in_page, current_page after it.
ParagraphStep(paragraph, idx, current_page, line_in_page) ==
    LET estimated_page == (idx \div ParagraphsPerPage) + 1
        line_count == LineCount(Strip(ParagraphText(paragraph)))
        turned == estimated_page > current_page
        next_line == IF turned THEN 1 ELSE line_in_page + line_count
    IN  [para_data |-> [index |-> idx, text |-> ParagraphText(paragraph),
                        page_number |-> estimated_page,
                        start_line |-> line_in_page,
                        end_line |-> next_line - 1,
                        line_count |-> line_count],
         current_page |-> IF turned THEN estimated_page ELSE current_page,
         line_in_page |-> next_line]

RECURSIVE ParagraphsFrom(_, _, _, _)
ParagraphsFrom(paragraphs, k, current_page, line_in_page) ==
    IF k > Len(paragraphs) THEN <<>>
    ELSE LET step == ParagraphStep(paragraphs[k], k - 1, current_page, line_in_page)
         IN  <<step.para_data>>
             \o ParagraphsFrom(paragraphs, k + 1, step.current_page, step.line_in_page)

_parse_paragraphs(d) ==
    ParagraphsFrom(d.paragraphs, 1, 1, 1)

\* The paragraphs of the uploaded file are parsed into the snapshot.
ParseParagraphs ==
    /\ pc = "parse"
    /\ doc' = [doc EXCEPT !.paragraphs = _parse_paragraphs(fs[OriginalPath])]
    /\ pc' = "parsed"
    /\ UNCHANGED <<rules, mode, ruleIdx, issues, merged, remerged,
                   fs, revs, user, reqs, checks, orders>>

\* A paragraph of one run of this text.
TextParagraph(text) ==
    DocxParagraph(<<"Normal">>, None, << >>, <<RunNode(text, << >>)>>)

\* Texts of one line, of two lines by a line break, and of two lines by
\* their length.
OneLine ==
    <<"a">>

BrokenLine ==
    <<"a", "\n", "a">>

LongLine ==
    [k \in 1..CharsPerLine |-> "a"]

\* The paragraphs whose text may be longer than one line: the first two of
\* the document and those around the page break.
LongPositions ==
    {1, 2, ParagraphsPerPage, ParagraphsPerPage + 1, ParagraphsPerPage + 2}

InitParagraphs ==
    /\ NoSubmission
    /\ revs = <<>>
    /\ rules = <<>> /\ mode = "sync" /\ ruleIdx = 1
    /\ issues = <<>> /\ merged = <<>> /\ remerged = <<>>
    /\ pc = "parse"
    /\ doc = EmptyDoc
    /\ \E n \in 1..MaxDocParagraphs, long \in SUBSET LongPositions,
          text \in {BrokenLine, LongLine} :
          fs = Put(<< >>, OriginalPath,
                   [readable |-> TRUE, settings |-> {},
                    sections |-> <<DocxSection(2540, 2540, 3180, 3180)>>,
                    paragraphs |-> [k \in 1..n |->
                        TextParagraph(IF k \in long THEN text ELSE OneLine)]])

SpecParagraphs ==
    InitParagraphs /\ [][ParseParagraphs]_vars

\* 1 <= start_line <= end_line
LinesInOrder(p) ==
    1 <= p.start_line /\ p.start_line <= p.end_line

\* The paragraph is the first of its estimated page.
FirstOfPage(k) ==
    k = 1 \/ doc.paragraphs[k - 1].page_number # doc.paragraphs[k].page_number

\* C30: in SpecParagraphs, every paragraph of the parsed snapshot has
\* 1 <= start_line <= end_line, the first paragraph of each page starts at
\* line 1, and every other paragraph starts on the line after the end of
\* the paragraph before it.
C30_LineRanges ==
    pc = "parsed" =>
        \A k \in DOMAIN doc.paragraphs :
            /\ LinesInOrder(doc.paragraphs[k])
            /\ IF FirstOfPage(k) THEN doc.paragraphs[k].start_line = 1
               ELSE doc.paragraphs[k].start_line = doc.paragraphs[k - 1].end_line + 1

\* On the first page the line ranges are as C30 says, and the following
\* pages are so from their second paragraph on.
C30_RangesApartFromPageBreak ==
    pc = "parsed" =>
        \A k \in DOMAIN doc.paragraphs :
            /\ doc.paragraphs[k].page_number = 1 =>
                  /\ LinesInOrder(doc.paragraphs[k])
                  /\ IF k = 1 THEN doc.paragraphs[k].start_line = 1
                     ELSE doc.paragraphs[k].start_line
                              = doc.paragraphs[k - 1].end_line + 1
            /\ (doc.paragraphs[k].page_number > 1 /\ ~FirstOfPage(k)) =>
                  LinesInOrder(doc.paragraphs[k])

====
